---- MODULE Spec2Model ----
(***************************************************************************)
(* Model of the task tracker: the in-memory store (lib/database.ts), the   *)
(* task and user handlers (handlers/taskHandlers.ts), the broadcast hub    *)
(* (lib/websocket.ts) and the viewers' task cache (TaskContext.tsx).       *)
(*                                                                         *)
(* Spec       : the handlers called directly, one request per step (a      *)
(*              handler has no await, so it runs to completion).           *)
(* SpecClient : viewers issue requests through TaskContext; requests,      *)
(*              responses and pushed events are in flight on the network.  *)
(***************************************************************************)
EXTENDS Integers, Sequences, FiniteSets, TLC

\* ---------------------------------------------------------------- bounds
\* task ids uuidv4() hands out, and task requests the server takes
MaxTasks == 2
MaxReq == 3
\* connect_error events one socket sees before the model stops counting
MaxErrors == 6
\* session ids createUserSession hands out
MaxSessions == 2

\* WebSocketService.maxReconnectAttempts and .reconnectDelay (ms)
maxReconnectAttempts == 5
reconnectDelay == 1000

\* ------------------------------------------------------------- constants
\* an optional value (undefined in the source) is <<>> or <<value>>
None == <<>>
Some(x) == <<x>>
\* a key that a partial update does not carry
Absent == <<>>

TaskIds == 1..MaxTasks
UserIds == {1}
Usernames == {1}
Viewers == {1, 2}
\* the readings of the wall clock
ClockReadings == {0, 1}

TaskStatus == {"To Do", "In Progress", "Done"}
TaskPriority == {"Low", "Medium", "High"}

\* inputs the requests are drawn from
Titles == {"t"}
Descriptions == {None}
InPriorities == {"Medium"}
DepSets == SUBSET TaskIds
UserRefs == UserIds

VARIABLES
  users,         \* database.ts users: user id -> username
  userSessions,  \* database.ts userSessions: session id -> user id
  tasks,         \* database.ts tasks: task id -> Task
  nextId,        \* next task id uuidv4() hands out
  now,           \* the wall clock read by new Date()
  last,          \* the request handled last and what the handler did
  listening,     \* viewer -> TaskContext listeners are registered
  connected,     \* viewer -> its socket is connected to the hub
  cache,         \* viewer -> TaskContext tasks (a list of Task)
  evQ,           \* viewer -> events in flight on its socket, in order
  http,          \* viewer -> its outstanding HTTP exchange
  nreq,          \* number of task requests the server has taken
  pushed,        \* history: viewer -> the task ids whose latest commit was
                 \* announced on the viewer's socket
  reconnectAttempts, \* viewer -> WebSocketService.reconnectAttempts
  timers,        \* viewer -> delays of the pending setTimeout reconnects
  scheduled,     \* history: viewer -> delays handleReconnect has scheduled
                 \* since the socket was last connected, in order
  trying,        \* viewer -> a connection attempt is under way
  token,         \* viewer -> localStorage 'sessionId'
  auth,          \* viewer -> its outstanding login/logout exchange
  upQ,           \* viewer -> messages in flight from its socket to the hub
  connectedUsers, \* websocket.ts connectedUsers: socket (of viewer) -> user id
  rooms,         \* user id -> the sockets that joined room user_<id>
  wsLast,        \* the socket message the hub handled last and what it did
  dropped,       \* history: viewer -> "never", or how its channel dropped
                 \* last: "joined" (the socket was in the hub's table) or "plain"
  missed,        \* history: viewer -> the task ids whose latest commit was
                 \* made while the viewer's channel was down after a drop
  log,           \* history: the events of the commits made, in commit order
  snap           \* history: viewer -> the task list as it was when the
                 \* viewer's latest mutation was issued, with the events
                 \* applied that arrived before its outcome; whether any
                 \* did; and the outcome, kept until the viewer's next step
VARIABLES
  acCache,       \* ApiClient.cache: key -> the stored response and whether
                 \* its ttl has not run out yet
  acRead,        \* the cached read of the ApiClient that is outstanding
  acMut,         \* the mutation call of the ApiClient that is outstanding
  acLast,        \* the ApiClient call that has just returned, a mutation or
                 \* a read answered from the cache: where its answer came
                 \* from and the keys it took out of the cache
  acAge          \* history: the outstanding mutation was committed after
                 \* the server computed the answer of the outstanding read
                 \* (after); a mutation committed after that answer has
                 \* returned successfully (read); the keys of the entries
                 \* stored from such answers (keys)
VARIABLES
  hkSockets,     \* useWebSocket: the sockets connect() has created, in order,
                 \* each "connecting", "connected" or "closed"
  hkSocket,      \* useWebSocket socket state: the socket setSocket stored
  hkStatus,      \* useWebSocket connectionStatus
  hkAttempts,    \* useWebSocket reconnectAttemptsRef.current
  hkTimers,      \* the pending setTimeout reconnects of the hook: the socket
                 \* whose listener scheduled each, and its delay
  hkTimeoutRef,  \* useWebSocket reconnectTimeoutRef.current
  hkScheduled    \* history: the delays the hook's handleReconnect has
                 \* scheduled since a socket of the hook last connected
VARIABLES
  routed         \* the request the tasks router took last: its route, the
                 \* token of its Authorization header and whether its body
                 \* satisfies the route's body schema

serverVars == <<users, userSessions, tasks, nextId, now>>
clientVars == <<listening, connected, cache, evQ, http, nreq, pushed>>
wsVars == <<reconnectAttempts, timers, scheduled, trying, token, auth, upQ,
            connectedUsers, rooms, wsLast, dropped, missed, log>>
\* the state of the caching ApiClient
acVars == <<acCache, acRead, acMut, acLast, acAge>>
\* the state of one mounted useWebSocket hook
hkVars == <<hkSockets, hkSocket, hkStatus, hkAttempts, hkTimers, hkTimeoutRef,
            hkScheduled>>
\* the state outside the store, the task requests and the viewers' task caches
restVars == <<wsVars, snap, acVars, hkVars, routed>>
vars == <<users, userSessions, tasks, nextId, now, last,
          listening, connected, cache, evQ, http, nreq, pushed, restVars>>

\* ------------------------------------------------------- lib/database.ts
getTaskById(id) == IF id \in DOMAIN tasks THEN Some(tasks[id]) ELSE None

getUserById(id) == IF id \in DOMAIN users THEN Some(users[id]) ELSE None

getUserByUsername(name) ==
  IF \E u \in DOMAIN users : users[u] = name
  THEN Some(CHOOSE u \in DOMAIN users : users[u] = name)
  ELSE None

\* the new task record of database.createTask; t2 is the second new Date()
NewTask(id, taskData, t1, t2) ==
  [id |-> id,
   title |-> taskData.title,
   description |-> taskData.description,
   priority |-> taskData.priority,
   status |-> taskData.status,
   assignedUserId |-> taskData.assignedUserId,
   dependencies |-> taskData.dependencies,
   createdAt |-> t1,
   updatedAt |-> t2]

\* mutant: an update that carries no dependencies carries the schema's
\* default, the empty list
MergeTask_defaultDependencies(existingTask, updates, t) ==
  [id |-> existingTask.id,
   title |-> IF updates.title = Absent THEN existingTask.title ELSE updates.title[1],
   description |-> IF updates.description = Absent THEN existingTask.description
                   ELSE updates.description,
   priority |-> IF updates.priority = Absent THEN existingTask.priority
                ELSE updates.priority[1],
   status |-> IF updates.status = Absent THEN existingTask.status ELSE updates.status[1],
   assignedUserId |-> IF updates.assignedUserId = Absent THEN existingTask.assignedUserId
                      ELSE updates.assignedUserId,
   dependencies |-> IF updates.dependencies = Absent THEN {} ELSE updates.dependencies[1],
   createdAt |-> existingTask.createdAt,
   updatedAt |-> t]

\* {...existingTask, ...updates, id, updatedAt: new Date()}
MergeTask(existingTask, updates, t) ==
  [id |-> existingTask.id,
   title |-> IF updates.title = Absent THEN existingTask.title ELSE updates.title[1],
   description |-> IF updates.description = Absent THEN existingTask.description
                   ELSE updates.description,
   priority |-> IF updates.priority = Absent THEN existingTask.priority
                ELSE updates.priority[1],
   status |-> IF updates.status = Absent THEN existingTask.status ELSE updates.status[1],
   assignedUserId |-> IF updates.assignedUserId = Absent THEN existingTask.assignedUserId
                      ELSE updates.assignedUserId,
   dependencies |-> IF updates.dependencies = Absent THEN existingTask.dependencies
                    ELSE updates.dependencies[1],
   createdAt |-> existingTask.createdAt,
   updatedAt |-> t]

\* mutant: the status of a dependency is not looked at
canMarkTaskAsDone_existsOnly(taskId) ==
  /\ taskId \in DOMAIN tasks
  /\ \A depId \in tasks[taskId].dependencies : depId \in DOMAIN tasks

canMarkTaskAsDone(taskId) ==
  /\ taskId \in DOMAIN tasks
  /\ \A depId \in tasks[taskId].dependencies :
        depId \in DOMAIN tasks /\ tasks[depId].status = "Done"

getTasksDependingOn(taskId) ==
  {t \in DOMAIN tasks : taskId \in tasks[t].dependencies}

\* mutant: a Done task with an unfinished dependency is reported too
getBlockedTasks_withDone ==
  {t \in DOMAIN tasks :
     \E depId \in tasks[t].dependencies :
        depId \notin DOMAIN tasks \/ tasks[depId].status # "Done"}

getBlockedTasks ==
  {t \in DOMAIN tasks :
     /\ tasks[t].status # "Done"
     /\ \E depId \in tasks[t].dependencies :
           depId \notin DOMAIN tasks \/ tasks[depId].status # "Done"}

\* tasks.delete(id)
RemoveTask(id) == [t \in (DOMAIN tasks) \ {id} |-> tasks[t]]

\* tasks.set(id, task)
PutTask(id, task) == [t \in (DOMAIN tasks) \cup {id} |-> IF t = id THEN task ELSE tasks[t]]

\* ------------------------------------------------------ lib/websocket.ts
broadcastTaskCreated(task) == [type |-> "task_created", task |-> Some(task), taskId |-> task.id]
\* mutant: the update is announced under the creation event's name
broadcastTaskUpdated_asCreated(task) ==
  [type |-> "task_created", task |-> Some(task), taskId |-> task.id]

broadcastTaskUpdated(task) == [type |-> "task_updated", task |-> Some(task), taskId |-> task.id]
broadcastTaskDeleted(taskId) == [type |-> "task_deleted", task |-> None, taskId |-> taskId]

\* ---------------------------------------------------------- the requests
EmptyUpdate ==
  [title |-> Absent, description |-> Absent, priority |-> Absent, status |-> Absent,
   assignedUserId |-> Absent, dependencies |-> Absent]

CreateBodies ==
  [title : Titles, description : Descriptions, priority : InPriorities,
   status : TaskStatus, assignedUserId : {None} \cup {Some(u) : u \in UserRefs},
   dependencies : DepSets]

UpdateBodies ==
  {EmptyUpdate}
  \cup {[EmptyUpdate EXCEPT !.priority = Some(p)] : p \in InPriorities}
  \cup {[EmptyUpdate EXCEPT !.status = Some(s)] : s \in TaskStatus}
  \cup {[EmptyUpdate EXCEPT !.assignedUserId = Some(u)] : u \in UserRefs}
  \cup {[EmptyUpdate EXCEPT !.dependencies = Some(d)] : d \in DepSets}
  \cup {[EmptyUpdate EXCEPT !.status = Some("Done"), !.dependencies = Some(d)] : d \in DepSets}

\* what a handler answers: res.status(code).json({success, error, data})
Rejected(op, id, body, code, error) ==
  [op |-> op, id |-> id, code |-> code, success |-> FALSE,
   error |-> Some(error), data |-> None, events |-> <<>>, steps |-> <<"respond">>]

Succeeded(op, id, body, code, data, event) ==
  [op |-> op, id |-> id, code |-> code, success |-> TRUE,
   error |-> None, data |-> Some(data), events |-> <<event>>,
   steps |-> <<"commit", "emit", "respond">>]

\* ------------------------------------------------ handlers/taskHandlers.ts
\* mutant: the assigned user is not looked up
createTask_anyUser(taskData) ==
  IF \E depId \in taskData.dependencies : getTaskById(depId) = None
  THEN /\ last' = Rejected("createTask", 0, taskData, 400, "Invalid dependency")
       /\ UNCHANGED serverVars
  ELSE /\ nextId <= MaxTasks
       /\ \E t2 \in {now, now + 1} :
            /\ t2 \in ClockReadings
            /\ LET task == NewTask(nextId, taskData, now, t2) IN
               /\ tasks' = PutTask(nextId, task)
               /\ last' = Succeeded("createTask", nextId, taskData, 201, task,
                                    broadcastTaskCreated(task))
            /\ now' = t2
       /\ nextId' = nextId + 1
       /\ UNCHANGED <<users, userSessions>>

createTask(taskData) ==
  IF \E depId \in taskData.dependencies : getTaskById(depId) = None
  THEN /\ last' = Rejected("createTask", 0, taskData, 400, "Invalid dependency")
       /\ UNCHANGED serverVars
  ELSE IF taskData.assignedUserId # None /\ getUserById(taskData.assignedUserId[1]) = None
  THEN /\ last' = Rejected("createTask", 0, taskData, 400, "Invalid assigned user")
       /\ UNCHANGED serverVars
  ELSE /\ nextId <= MaxTasks
       /\ \E t2 \in {now, now + 1} :
            /\ t2 \in ClockReadings
            /\ LET task == NewTask(nextId, taskData, now, t2) IN
               /\ tasks' = PutTask(nextId, task)
               /\ last' = Succeeded("createTask", nextId, taskData, 201, task,
                                    broadcastTaskCreated(task))
            /\ now' = t2
       /\ nextId' = nextId + 1
       /\ UNCHANGED <<users, userSessions>>

updateTask(id, updates) ==
  IF getTaskById(id) = None
  THEN /\ last' = Rejected("updateTask", id, updates, 404, "Task not found")
       /\ UNCHANGED serverVars
  ELSE IF /\ updates.dependencies # Absent
          /\ \E depId \in updates.dependencies[1] : getTaskById(depId) = None
  THEN /\ last' = Rejected("updateTask", id, updates, 400, "Invalid dependency")
       /\ UNCHANGED serverVars
  ELSE IF /\ updates.assignedUserId # Absent
          /\ getUserById(updates.assignedUserId[1]) = None
  THEN /\ last' = Rejected("updateTask", id, updates, 400, "Invalid assigned user")
       /\ UNCHANGED serverVars
  ELSE IF updates.status = Some("Done") /\ ~canMarkTaskAsDone(id)
  THEN /\ last' = Rejected("updateTask", id, updates, 400, "Cannot mark as done")
       /\ UNCHANGED serverVars
  ELSE LET updatedTask == MergeTask(tasks[id], updates, now) IN
       /\ tasks' = PutTask(id, updatedTask)
       /\ last' = Succeeded("updateTask", id, updates, 200, updatedTask,
                            broadcastTaskUpdated(updatedTask))
       /\ UNCHANGED <<users, userSessions, nextId, now>>

\* the validation of the updateTask handler, read against a given store:
\* the request is not answered 404 or 400
updateAccepted(store, id, updates) ==
  /\ id \in DOMAIN store
  /\ updates.dependencies # Absent =>
       \A depId \in updates.dependencies[1] : depId \in DOMAIN store
  /\ updates.assignedUserId # Absent => getUserById(updates.assignedUserId[1]) # None
  /\ updates.status = Some("Done") =>
       \A depId \in store[id].dependencies :
          depId \in DOMAIN store /\ store[depId].status = "Done"

\* the store the updateTask handler leaves when it runs to its end against
\* a given store at clock reading t: validate, then commit
updateTaskOn(store, id, updates, t) ==
  IF updateAccepted(store, id, updates)
  THEN [store EXCEPT ![id] = MergeTask(store[id], updates, t)]
  ELSE store

\* mutant: the dependents of the task are not looked at
deleteTask_unguarded(id) ==
  IF getTaskById(id) = None
  THEN /\ last' = Rejected("deleteTask", id, None, 404, "Task not found")
       /\ UNCHANGED serverVars
  ELSE /\ tasks' = RemoveTask(id)
       /\ last' = Succeeded("deleteTask", id, None, 200, None, broadcastTaskDeleted(id))
       /\ UNCHANGED <<users, userSessions, nextId, now>>

deleteTask(id) ==
  IF getTaskById(id) = None
  THEN /\ last' = Rejected("deleteTask", id, None, 404, "Task not found")
       /\ UNCHANGED serverVars
  ELSE IF getTasksDependingOn(id) # {}
  THEN /\ last' = Rejected("deleteTask", id, None, 400, "Cannot delete task")
       /\ UNCHANGED serverVars
  ELSE /\ tasks' = RemoveTask(id)
       /\ last' = Succeeded("deleteTask", id, None, 200, None, broadcastTaskDeleted(id))
       /\ UNCHANGED <<users, userSessions, nextId, now>>

\* mutant: the task is stored as Done before its dependencies are looked at
markTaskAsComplete_commitFirst(id) ==
  IF getTaskById(id) = None
  THEN /\ last' = Rejected("markTaskAsComplete", id, None, 404, "Task not found")
       /\ UNCHANGED serverVars
  ELSE LET updatedTask == MergeTask(tasks[id], [EmptyUpdate EXCEPT !.status = Some("Done")], now) IN
       /\ tasks' = PutTask(id, updatedTask)
       /\ last' = IF canMarkTaskAsDone(id)
                  THEN Succeeded("markTaskAsComplete", id, None, 200, updatedTask,
                                 broadcastTaskUpdated(updatedTask))
                  ELSE Rejected("markTaskAsComplete", id, None, 400, "Cannot mark as done")
       /\ UNCHANGED <<users, userSessions, nextId, now>>

markTaskAsComplete(id) ==
  IF getTaskById(id) = None
  THEN /\ last' = Rejected("markTaskAsComplete", id, None, 404, "Task not found")
       /\ UNCHANGED serverVars
  ELSE IF ~canMarkTaskAsDone(id)
  THEN /\ last' = Rejected("markTaskAsComplete", id, None, 400, "Cannot mark as done")
       /\ UNCHANGED serverVars
  ELSE LET updatedTask == MergeTask(tasks[id], [EmptyUpdate EXCEPT !.status = Some("Done")], now) IN
       /\ tasks' = PutTask(id, updatedTask)
       /\ last' = Succeeded("markTaskAsComplete", id, None, 200, updatedTask,
                            broadcastTaskUpdated(updatedTask))
       /\ UNCHANGED <<users, userSessions, nextId, now>>

\* userHandlers.createUser: a register request for a username
createUser(username) ==
  IF getUserByUsername(username) # None
  THEN /\ last' = Rejected("createUser", username, None, 409, "User already exists")
       /\ UNCHANGED serverVars
  ELSE LET uid == Cardinality(DOMAIN users) + 1
           sid == Cardinality(DOMAIN userSessions) + 1 IN
       /\ uid \in UserIds
       /\ users' = [u \in (DOMAIN users) \cup {uid} |-> IF u = uid THEN username ELSE users[u]]
       /\ userSessions' = [s \in (DOMAIN userSessions) \cup {sid} |->
                              IF s = sid THEN uid ELSE userSessions[s]]
       /\ last' = [op |-> "createUser", id |-> username, code |-> 201,
                   success |-> TRUE, error |-> None, data |-> Some(sid), events |-> <<>>,
                   steps |-> <<"commit", "respond">>]
       /\ UNCHANGED <<tasks, nextId, now>>

\* time passes between two requests
Tick ==
  /\ now + 1 \in ClockReadings
  /\ now' = now + 1
  /\ UNCHANGED <<users, userSessions, tasks, nextId, last>>

\* --------------------------------------------- handlers: getAllTasks
\* Array.from(tasks.values()): a Map lists its entries in insertion order,
\* which is the order of the ids
RECURSIVE TaskList(_)
TaskList(ids) ==
  IF ids = {} THEN <<>>
  ELSE LET m == CHOOSE i \in ids : \A j \in ids : i <= j
       IN <<tasks[m]>> \o TaskList(ids \ {m})

getAllTasks == TaskList(DOMAIN tasks)

\* ------------------------------------------- contexts/TaskContext.tsx
handleTaskCreated(prev, task) == <<task>> \o prev

handleTaskUpdated(prev, task) ==
  [i \in DOMAIN prev |-> IF prev[i].id = task.id THEN task ELSE prev[i]]

handleTaskDeleted(prev, taskId) == SelectSeq(prev, LAMBDA task : task.id # taskId)

\* the socket listener that an event of this type runs
ApplyEvent(prev, event) ==
  IF event.type = "task_created" THEN handleTaskCreated(prev, event.task[1])
  ELSE IF event.type = "task_updated" THEN handleTaskUpdated(prev, event.task[1])
  ELSE handleTaskDeleted(prev, event.taskId)

\* mutant: a delete that was refused still takes the task off the list
ApplyResponse_refusedDeleteRemoves(prev, resp) ==
  IF resp.op = "deleteTask" THEN SelectSeq(prev, LAMBDA task : task.id # resp.id)
  ELSE IF ~resp.success THEN prev
  ELSE IF resp.op = "createTask" THEN <<resp.data[1]>> \o prev
  ELSE IF resp.op \in {"updateTask", "markTaskAsComplete"}
  THEN [i \in DOMAIN prev |-> IF prev[i].id = resp.id THEN resp.data[1] ELSE prev[i]]
  ELSE resp.data[1]

\* what createTask/updateTask/deleteTask/markTaskAsComplete/loadInitialData
\* do with the response they awaited
ApplyResponse(prev, resp) ==
  IF ~resp.success THEN prev
  ELSE IF resp.op = "createTask" THEN <<resp.data[1]>> \o prev
  ELSE IF resp.op \in {"updateTask", "markTaskAsComplete"}
  THEN [i \in DOMAIN prev |-> IF prev[i].id = resp.id THEN resp.data[1] ELSE prev[i]]
  ELSE IF resp.op = "deleteTask" THEN SelectSeq(prev, LAMBDA task : task.id # resp.id)
  ELSE resp.data[1]

Idle == [phase |-> "idle", op |-> "none", id |-> 0, body |-> None,
         success |-> FALSE, data |-> None]

Sent(op, id, body) ==
  [phase |-> "sent", op |-> op, id |-> id, body |-> Some(body),
   success |-> FALSE, data |-> None]

Answered(op, id, success, data) ==
  [phase |-> "answered", op |-> op, id |-> id, body |-> None,
   success |-> success, data |-> data]

\* no mutation of the viewer is outstanding or has just failed
NoSnap == [state |-> "none", altered |-> FALSE, list |-> <<>>]

\* the outcome of a request, recorded with the snapshot
Outcome(s, failed) == IF s.state = "open" /\ failed THEN [s EXCEPT !.state = "failed"] ELSE NoSnap

\* no cached read of the ApiClient is outstanding
NoRead == [phase |-> "idle", key |-> <<>>, ok |-> FALSE, data |-> None]

\* no call of the ApiClient has just returned
NoCall == [op |-> "none", key |-> <<>>, from |-> "none", removed |-> {}]

\* ------------------------------------------------------------------ Spec
NoRequest ==
  [op |-> "none", id |-> 0, code |-> 0, success |-> FALSE,
   error |-> None, data |-> None, events |-> <<>>, steps |-> <<>>]

EmptyMap == [x \in {} |-> 0]

\* no login or logout is outstanding
NoAuth == [phase |-> "idle", op |-> "none", success |-> FALSE, sessionId |-> None]

\* the hub has handled no socket message yet
NoMessage == [op |-> "none", socket |-> 0, member |-> None, emitted |-> <<>>]

Init ==
  /\ users = EmptyMap
  /\ userSessions = EmptyMap
  /\ tasks = EmptyMap
  /\ nextId = 1
  /\ now = 0
  /\ last = NoRequest
  /\ listening = [v \in Viewers |-> FALSE]
  /\ connected = [v \in Viewers |-> FALSE]
  /\ cache = [v \in Viewers |-> <<>>]
  /\ evQ = [v \in Viewers |-> <<>>]
  /\ http = [v \in Viewers |-> Idle]
  /\ nreq = 0
  /\ pushed = [v \in Viewers |-> {}]
  /\ reconnectAttempts = [v \in Viewers |-> 0]
  /\ timers = [v \in Viewers |-> {}]
  /\ scheduled = [v \in Viewers |-> <<>>]
  /\ trying = [v \in Viewers |-> TRUE]
  /\ token = [v \in Viewers |-> None]
  /\ auth = [v \in Viewers |-> NoAuth]
  /\ upQ = [v \in Viewers |-> <<>>]
  /\ connectedUsers = EmptyMap
  /\ rooms = [u \in UserIds |-> {}]
  /\ wsLast = NoMessage
  /\ dropped = [v \in Viewers |-> "never"]
  /\ missed = [v \in Viewers |-> {}]
  /\ log = <<>>
  /\ snap = [v \in Viewers |-> NoSnap]
  /\ acCache = EmptyMap
  /\ acRead = NoRead
  /\ acMut = Idle
  /\ acLast = NoCall
  /\ acAge = [after |-> FALSE, read |-> FALSE, keys |-> {}]
  /\ hkSockets = <<>>
  /\ hkSocket = None
  /\ hkStatus = "disconnected"
  /\ hkAttempts = 0
  /\ hkTimers = {}
  /\ hkTimeoutRef = None
  /\ hkScheduled = <<>>
  /\ routed = [route |-> "none", bearer |-> None, valid |-> TRUE]

netVars == <<listening, connected, cache, evQ, http, pushed>>

\* the server takes one more task request
Taken == nreq < MaxReq /\ nreq' = nreq + 1

CreateTaskReq ==
  /\ Taken
  /\ \E taskData \in CreateBodies : createTask(taskData)
  /\ UNCHANGED <<netVars, restVars>>

UpdateTaskReq ==
  /\ Taken
  /\ \E id \in TaskIds, updates \in UpdateBodies : updateTask(id, updates)
  /\ UNCHANGED <<netVars, restVars>>

DeleteTaskReq ==
  /\ Taken
  /\ \E id \in TaskIds : deleteTask(id)
  /\ UNCHANGED <<netVars, restVars>>

MarkCompleteReq ==
  /\ Taken
  /\ \E id \in TaskIds : markTaskAsComplete(id)
  /\ UNCHANGED <<netVars, restVars>>

CreateUserReq ==
  /\ \E username \in Usernames : createUser(username)
  /\ UNCHANGED <<clientVars, restVars>>

TickStep == Tick /\ UNCHANGED <<clientVars, restVars>>

Next ==
  \/ CreateTaskReq
  \/ UpdateTaskReq
  \/ DeleteTaskReq
  \/ MarkCompleteReq
  \/ CreateUserReq
  \/ TickStep

Spec == Init /\ [][Next]_vars

\* ------------------------------------------------------------- SpecQuery
\* a JSON array in a response: 'holds' tells ids from task objects where
\* the array has elements
IdArray(ids) == [holds |-> IF ids = {} THEN "nothing" ELSE "ids", items |-> ids]
TaskArray(ids) ==
  [holds |-> IF ids = {} THEN "nothing" ELSE "tasks", items |-> {tasks[t] : t \in ids}]

\* database.getTaskDependencies: the dependencies that resolve, as tasks
getTaskDependencies(taskId) ==
  IF taskId \in DOMAIN tasks
  THEN {depId \in tasks[taskId].dependencies : depId \in DOMAIN tasks}
  ELSE {}

\* what the getTaskById handler answers:
\* {...task, dependencies: getTaskDependencies(id), dependentTasks}
getTaskByIdAnswer(id) ==
  IF getTaskById(id) = None
  THEN Rejected("getTaskById", id, None, 404, "Task not found")
  ELSE [op |-> "getTaskById", id |-> id, code |-> 200, success |-> TRUE, error |-> None,
        data |-> Some([id |-> id,
                       title |-> tasks[id].title,
                       description |-> tasks[id].description,
                       priority |-> tasks[id].priority,
                       status |-> tasks[id].status,
                       assignedUserId |-> tasks[id].assignedUserId,
                       createdAt |-> tasks[id].createdAt,
                       updatedAt |-> tasks[id].updatedAt,
                       dependencies |-> TaskArray(getTaskDependencies(id)),
                       dependentTasks |-> TaskArray(getTasksDependingOn(id))]),
        events |-> <<>>, steps |-> <<"respond">>]

\* what the getBlockedTasks handler answers
getBlockedTasksAnswer ==
  [op |-> "getBlockedTasks", id |-> 0, code |-> 200, success |-> TRUE, error |-> None,
   data |-> Some(TaskList(getBlockedTasks)), events |-> <<>>, steps |-> <<"respond">>]

GetTaskByIdReq ==
  /\ \E id \in TaskIds : last' = getTaskByIdAnswer(id)
  /\ UNCHANGED <<serverVars, clientVars, restVars>>

GetBlockedTasksReq ==
  /\ last' = getBlockedTasksAnswer
  /\ UNCHANGED <<serverVars, clientVars, restVars>>

\* the create requests of SpecQuery: those of Spec that name no user, and
\* some with a description and the other priorities
QueryCreateBodies ==
  {b \in CreateBodies : b.assignedUserId = None}
  \cup {[title |-> "t", description |-> Some("d"), priority |-> p, status |-> "To Do",
          assignedUserId |-> None, dependencies |-> d] :
            p \in {"Low", "High"}, d \in {{}, {1}}}

QueryCreateReq ==
  /\ Taken
  /\ \E taskData \in QueryCreateBodies : createTask(taskData)
  /\ UNCHANGED <<netVars, restVars>>

\* the update requests of SpecQuery: a status or a dependency list
QueryUpdateBodies ==
  {u \in UpdateBodies :
     /\ u.priority = Absent
     /\ u.assignedUserId = Absent
     /\ u # EmptyUpdate
     /\ u.status = Absent \/ u.dependencies = Absent}

QueryUpdateReq ==
  /\ Taken
  /\ \E id \in TaskIds, updates \in QueryUpdateBodies : updateTask(id, updates)
  /\ UNCHANGED <<netVars, restVars>>

\* the handlers called directly, the two queries among them
NextQuery ==
  \/ QueryCreateReq
  \/ QueryUpdateReq
  \/ DeleteTaskReq
  \/ MarkCompleteReq
  \/ GetTaskByIdReq
  \/ GetBlockedTasksReq

SpecQuery == Init /\ [][NextQuery]_vars

\* ------------------------------------------------------------- SpecCycle
\* the requests of SpecCycle: one more than Spec takes, drawn from fewer
\* inputs
MaxCycleReq == MaxReq + 1
CycleTaken == nreq < MaxCycleReq /\ nreq' = nreq + 1

CycleCreateBodies ==
  {b \in CreateBodies : b.assignedUserId = None /\ b.status \in {"To Do", "Done"}}

CycleUpdateBodies ==
  {[EmptyUpdate EXCEPT !.status = Some("Done")]}
  \cup {[EmptyUpdate EXCEPT !.dependencies = Some(d)] : d \in DepSets}

CycleCreateReq ==
  /\ CycleTaken
  /\ \E taskData \in CycleCreateBodies : createTask(taskData)
  /\ UNCHANGED <<netVars, restVars>>

CycleUpdateReq ==
  /\ CycleTaken
  /\ \E id \in TaskIds, updates \in CycleUpdateBodies : updateTask(id, updates)
  /\ UNCHANGED <<netVars, restVars>>

CycleCompleteReq ==
  /\ CycleTaken
  /\ \E id \in TaskIds : markTaskAsComplete(id)
  /\ UNCHANGED <<netVars, restVars>>

NextCycle ==
  \/ CycleCreateReq
  \/ CycleUpdateReq
  \/ CycleCompleteReq

SpecCycle == Init /\ [][NextCycle]_vars

\* ------------------------------------------------------------ SpecClient
\* the TaskProvider of viewer v mounts authenticated: it starts
\* loadInitialData and registers the socket listeners
Mount(v) ==
  /\ ~listening[v]
  /\ http[v].phase = "idle"
  /\ listening' = [listening EXCEPT ![v] = TRUE]
  /\ http' = [http EXCEPT ![v] = Sent("getAllTasks", 0, None)]
  /\ UNCHANGED <<users, userSessions, tasks, nextId, now, last, connected, cache, evQ, nreq,
                 pushed>>
  /\ UNCHANGED restVars

\* the message joinUserSession emits
UserJoin(sessionId) == [type |-> "user_join", sessionId |-> Some(sessionId)]
\* the message leaveUserSession emits
UserLeave == [type |-> "user_leave", sessionId |-> None]

\* mutant: the 'connect' listener does not announce the stored session
SocketConnect_noJoin(v) ==
  /\ ~connected[v]
  /\ trying[v]
  /\ connected' = [connected EXCEPT ![v] = TRUE]
  /\ trying' = [trying EXCEPT ![v] = FALSE]
  /\ reconnectAttempts' = [reconnectAttempts EXCEPT ![v] = 0]
  /\ scheduled' = [scheduled EXCEPT ![v] = <<>>]
  /\ upQ' = [upQ EXCEPT ![v] = <<>>]
  /\ UNCHANGED <<users, userSessions, tasks, nextId, now, last, listening, cache, evQ, http,
                 nreq, pushed>>
  /\ UNCHANGED <<timers, token, auth, connectedUsers, rooms, wsLast, dropped, missed, log, snap, acVars, hkVars, routed>>

\* the socket of viewer v connects to the hub: an attempt under way succeeds
\* and the 'connect' listener runs (reset the counter, join if a session
\* id is stored)
SocketConnect(v) ==
  /\ ~connected[v]
  /\ trying[v]
  /\ connected' = [connected EXCEPT ![v] = TRUE]
  /\ trying' = [trying EXCEPT ![v] = FALSE]
  /\ reconnectAttempts' = [reconnectAttempts EXCEPT ![v] = 0]
  /\ scheduled' = [scheduled EXCEPT ![v] = <<>>]
  /\ upQ' = [upQ EXCEPT ![v] = IF token[v] # None THEN <<UserJoin(token[v][1])>> ELSE <<>>]
  /\ UNCHANGED <<users, userSessions, tasks, nextId, now, last, listening, cache, evQ, http,
                 nreq, pushed>>
  /\ UNCHANGED <<timers, token, auth, connectedUsers, rooms, wsLast, dropped, missed, log, snap, acVars, hkVars, routed>>

\* the task requests on their way to the server
OnTheWay == {w \in Viewers : http[w].phase = "sent" /\ http[w].op # "getAllTasks"}

\* the operations of TaskContext that mutate
MutationOps == {"createTask", "updateTask", "deleteTask", "markTaskAsComplete"}

\* viewer v calls a TaskContext mutation, which sends its request and awaits
Issue(v, op, id, body) ==
  /\ listening[v]
  /\ http[v].phase = "idle"
  /\ nreq + Cardinality(OnTheWay) < MaxReq
  /\ http' = [http EXCEPT ![v] = Sent(op, id, body)]
  /\ snap' = [snap EXCEPT ![v] = [state |-> "open", altered |-> FALSE, list |-> cache[v]]]
  /\ UNCHANGED <<users, userSessions, tasks, nextId, now, last, listening, connected,
                 cache, evQ, nreq, pushed>>
  /\ UNCHANGED <<wsVars, acVars, hkVars, routed>>

\* the inputs the viewers' forms are drawn from
ViewerCreateBodies ==
  {b \in CreateBodies :
     b.status = "To Do" /\ b.assignedUserId = None /\ b.dependencies \subseteq {1}}

ViewerUpdateBodies ==
  {u \in UpdateBodies :
     /\ u.dependencies = Absent
     /\ u.priority = Absent
     /\ u # EmptyUpdate
     /\ u.status # Some("To Do")}

ViewerCreate(v) == \E taskData \in ViewerCreateBodies : Issue(v, "createTask", 0, taskData)
ViewerUpdate(v) ==
  \E id \in TaskIds, updates \in ViewerUpdateBodies : Issue(v, "updateTask", id, updates)
ViewerDelete(v) == \E id \in TaskIds : Issue(v, "deleteTask", id, None)
ViewerComplete(v) == \E id \in TaskIds : Issue(v, "markTaskAsComplete", id, None)

\* mutant: a new event overtakes the events still on their way
Emit_overtaking(events) ==
  [w \in Viewers |-> IF connected[w] THEN events \o evQ[w] ELSE evQ[w]]

\* io.emit: the event goes onto every connected socket
Emit(events) == [w \in Viewers |-> IF connected[w] THEN evQ[w] \o events ELSE evQ[w]]

\* the server takes the request of viewer v: the handler runs to its end
ServerHandle(v) ==
  /\ http[v].phase = "sent"
  /\ LET req == http[v] IN
     IF req.op = "getAllTasks"
     THEN /\ http' = [http EXCEPT ![v] = Answered(req.op, 0, TRUE, Some(getAllTasks))]
          /\ UNCHANGED <<users, userSessions, tasks, nextId, now, last, evQ, nreq, pushed,
                         log>>
     ELSE /\ Taken
          /\ CASE req.op = "createTask" -> createTask(req.body[1])
               [] req.op = "updateTask" -> updateTask(req.id, req.body[1])
               [] req.op = "deleteTask" -> deleteTask(req.id)
               [] OTHER -> markTaskAsComplete(req.id)
          /\ http' = [http EXCEPT ![v] = Answered(req.op, last'.id, last'.success, last'.data)]
          /\ evQ' = Emit(last'.events)
          /\ pushed' = [w \in Viewers |->
                          IF ~last'.success THEN pushed[w]
                          ELSE IF connected[w] THEN pushed[w] \cup {last'.id}
                          ELSE pushed[w] \ {last'.id}]
          /\ log' = log \o last'.events
  /\ UNCHANGED <<listening, connected, cache>>
  /\ UNCHANGED <<reconnectAttempts, timers, scheduled, trying, token, auth, upQ,
                 connectedUsers, rooms, wsLast, dropped, missed, snap, acVars, hkVars, routed>>

\* the awaited response reaches viewer v
ReceiveResponse(v) ==
  /\ http[v].phase = "answered"
  /\ cache' = [cache EXCEPT ![v] = ApplyResponse(cache[v], http[v])]
  /\ http' = [http EXCEPT ![v] = Idle]
  /\ snap' = [snap EXCEPT ![v] = Outcome(@, ~http[v].success)]
  /\ UNCHANGED <<users, userSessions, tasks, nextId, now, last, listening, connected, evQ,
                 nreq, pushed>>
  /\ UNCHANGED <<wsVars, acVars, hkVars, routed>>

\* the next pushed event reaches the socket of viewer v
ReceiveEvent(v) ==
  /\ evQ[v] # <<>>
  /\ cache' = [cache EXCEPT ![v] =
                  IF listening[v] THEN ApplyEvent(cache[v], Head(evQ[v])) ELSE cache[v]]
  /\ evQ' = [evQ EXCEPT ![v] = Tail(evQ[v])]
  /\ snap' = [snap EXCEPT ![v] =
                 IF snap[v].state = "open"
                 THEN [state |-> "open", altered |-> TRUE,
                       list |-> ApplyEvent(snap[v].list, Head(evQ[v]))]
                 ELSE NoSnap]
  /\ UNCHANGED <<users, userSessions, tasks, nextId, now, last, listening, connected, http,
                 nreq, pushed>>
  /\ UNCHANGED <<wsVars, acVars, hkVars, routed>>

\* the request of viewer v throws before the server takes it: the catch
\* block sets the error and rethrows
RequestThrows(v) ==
  /\ http[v].phase = "sent"
  /\ http' = [http EXCEPT ![v] = Idle]
  /\ snap' = [snap EXCEPT ![v] = Outcome(@, TRUE)]
  /\ UNCHANGED <<users, userSessions, tasks, nextId, now, last, listening, connected, cache,
                 evQ, nreq, pushed>>
  /\ UNCHANGED <<wsVars, acVars, hkVars, routed>>

NextClient ==
  \/ \E v \in Viewers : Mount(v)
  \/ \E v \in Viewers : SocketConnect(v)
  \/ \E v \in Viewers : ViewerCreate(v)
  \/ \E v \in Viewers : ViewerUpdate(v)
  \/ \E v \in Viewers : ViewerDelete(v)
  \/ \E v \in Viewers : ViewerComplete(v)
  \/ \E v \in Viewers : ServerHandle(v)
  \/ \E v \in Viewers : ReceiveResponse(v)
  \/ \E v \in Viewers : ReceiveEvent(v)

SpecClient == Init /\ [][NextClient]_vars

\* ------------------------------------------------------ lib/api-client.ts
\* an endpoint, and so a cache key, is the sequence of its path segments:
\* '/api/tasks/1' is <<"api", "tasks", "1">>
TasksPath == <<"api", "tasks">>
UsersPath == <<"api", "users">>
HealthPath == <<"health">>
TaskPath(id) == <<"api", "tasks", ToString(id)>>

\* the endpoints the modelled cached reads ask for: getAllTasks,
\* getTaskById, getAllUsers, healthCheck
ReadEndpoints == {TasksPath, UsersPath, HealthPath} \cup {TaskPath(id) : id \in TaskIds}

\* getCacheKey: the endpoint, followed by the serialised parameters if any
getCacheKey(endpoint, params) ==
  IF params = None THEN endpoint ELSE Append(endpoint, "_params")

\* String.prototype.includes on keys: the pattern's segments occur in the key
\* next to one another
Includes(key, pattern) ==
  \E i \in 0..(Len(key) - Len(pattern)) : SubSeq(key, i + 1, i + Len(pattern)) = pattern

\* cache.delete(key)
DeleteKey(key) == [k \in (DOMAIN acCache) \ {key} |-> acCache[k]]

\* getFromCache: the stored response, if there is one whose ttl has not run
\* out
getFromCache(key) ==
  IF key \in DOMAIN acCache /\ acCache[key].fresh THEN Some(acCache[key].data) ELSE None

\* setCache
setCache(key, data) ==
  [k \in (DOMAIN acCache) \cup {key} |->
     IF k = key THEN [data |-> data, fresh |-> TRUE] ELSE acCache[k]]

\* mutant: only the key that equals the pattern is deleted
invalidateCache_exact(pattern) ==
  [k \in {key \in DOMAIN acCache : key # pattern} |-> acCache[k]]

\* invalidateCache
invalidateCache(pattern) ==
  [k \in {key \in DOMAIN acCache : ~Includes(key, pattern)} |-> acCache[k]]

\* history: the ages of the entries that stay in the cache
AgesKept(newCache) == acAge.keys \cap DOMAIN newCache

\* a cached read (getAllTasks, getTaskById, getAllUsers,
\* healthCheck) is called: request() answers from the cache or sends
CachedRead(endpoint) ==
  /\ acRead.phase = "idle"
  /\ LET key == getCacheKey(endpoint, None) IN
     IF getFromCache(key) # None
     THEN /\ acLast' = [op |-> "read", key |-> key, from |-> "cache", removed |-> {}]
          /\ UNCHANGED <<acCache, acRead, acAge>>
     ELSE /\ acCache' = DeleteKey(key)
          /\ acRead' = [phase |-> "sent", key |-> key, ok |-> FALSE, data |-> None]
          /\ acLast' = NoCall
          /\ acAge' = [after |-> FALSE, read |-> FALSE, keys |-> AgesKept(acCache')]
  /\ UNCHANGED <<serverVars, last, clientVars, wsVars, snap, hkVars, routed, acMut>>

\* what the server answers a read of the endpoint with
ReadAnswer(key) ==
  IF key = TasksPath THEN Some(getAllTasks)
  ELSE IF key = UsersPath THEN Some(users)
  ELSE IF key = HealthPath THEN Some("Task Manager API is running")
  ELSE LET id == CHOOSE t \in TaskIds : TaskPath(t) = key IN getTaskByIdAnswer(id).data

\* the server answers the outstanding read
ReadServer ==
  /\ acRead.phase = "sent"
  /\ acRead' = [phase |-> "answered", key |-> acRead.key,
                ok |-> ReadAnswer(acRead.key) # None, data |-> ReadAnswer(acRead.key)]
  /\ UNCHANGED <<serverVars, last, clientVars, wsVars, snap, hkVars, routed, acCache, acMut, acLast,
                 acAge>>

\* request() resumes with the response of a read: a response that is not ok
\* throws, any other is stored and returned
ReadReturns ==
  /\ acRead.phase = "answered"
  /\ acCache' = IF acRead.ok THEN setCache(acRead.key, acRead.data[1]) ELSE acCache
  /\ acLast' = NoCall
  /\ acRead' = NoRead
  /\ acAge' = [after |-> FALSE, read |-> FALSE,
                keys |-> IF acRead.ok /\ acAge.read
                         THEN acAge.keys \cup {acRead.key}
                         ELSE acAge.keys \ {acRead.key}]
  /\ UNCHANGED <<serverVars, last, clientVars, wsVars, snap, hkVars, routed, acMut>>

\* the entries with the short ttl: healthCheck passes 30 s, all others get
\* the default of 5 min, which does not run out in the runs modelled
ShortLived == {HealthPath}

\* time passes until the ttl of a short-lived entry has run out
TimePasses(key) ==
  /\ key \in DOMAIN acCache
  /\ acCache[key].fresh
  /\ acCache' = [acCache EXCEPT ![key].fresh = FALSE]
  /\ UNCHANGED <<serverVars, last, clientVars, wsVars, snap, hkVars, routed, acRead, acMut, acLast,
                 acAge>>

\* createTask, updateTask, deleteTask or markTaskAsComplete of the ApiClient
\* is called: request() sends, and the server's handler runs to its end
ApiCall(op, id, body) ==
  /\ acMut.phase = "idle"
  /\ Taken
  /\ CASE op = "createTask" -> createTask(body)
       [] op = "updateTask" -> updateTask(id, body)
       [] op = "deleteTask" -> deleteTask(id)
       [] OTHER -> markTaskAsComplete(id)
  /\ acMut' = Answered(op, last'.id, last'.success, None)
  /\ acLast' = NoCall
  /\ acAge' = [acAge EXCEPT !.after = /\ acRead.phase = "answered"
                                       /\ Includes(acRead.key, TasksPath)
                                       /\ last'.success]
  /\ UNCHANGED <<listening, connected, cache, evQ, http, pushed>>
  /\ UNCHANGED <<wsVars, snap, hkVars, routed, acCache, acRead>>

\* the inputs of the ApiClient's mutation calls
ApiCreateBodies == {b \in ViewerCreateBodies : b.dependencies = {}}
ApiUpdateBodies == {[EmptyUpdate EXCEPT !.status = Some("Done")]}

ApiCreate == \E taskData \in ApiCreateBodies : ApiCall("createTask", 0, taskData)
ApiUpdate ==
  \E id \in TaskIds, updates \in ApiUpdateBodies : ApiCall("updateTask", id, updates)
ApiDelete == \E id \in TaskIds : ApiCall("deleteTask", id, None)
ApiComplete == \E id \in TaskIds : ApiCall("markTaskAsComplete", id, None)

\* the mutation call resumes with the response and returns: a response that
\* is not ok throws, a successful one invalidates '/api/tasks'
ApiReturns ==
  /\ acMut.phase = "answered"
  /\ IF acMut.success
     THEN /\ acCache' = invalidateCache(TasksPath)
          /\ acLast' = [op |-> acMut.op, key |-> <<>>, from |-> "server",
                        removed |-> (DOMAIN acCache) \ (DOMAIN acCache')]
          /\ acAge' = [after |-> FALSE, read |-> acAge.read \/ acAge.after,
                        keys |-> AgesKept(acCache')]
     ELSE /\ acLast' = [op |-> acMut.op, key |-> <<>>, from |-> "error", removed |-> {}]
          /\ acAge' = [acAge EXCEPT !.after = FALSE]
          /\ UNCHANGED acCache
  /\ acMut' = Idle
  /\ UNCHANGED <<serverVars, last, clientVars, wsVars, snap, hkVars, routed, acRead>>

\* SpecCache: one ApiClient, its cached reads and its task mutations
NextCache ==
  \/ \E endpoint \in ReadEndpoints : CachedRead(endpoint)
  \/ ReadServer
  \/ ReadReturns
  \/ \E key \in ShortLived : TimePasses(key)
  \/ ApiCreate
  \/ ApiUpdate
  \/ ApiDelete
  \/ ApiComplete
  \/ ApiReturns

SpecCache == Init /\ [][NextCache]_vars

\* --------------------------------------------- services/websocket.ts
\* the delay handleReconnect computes for the counter value n
ReconnectDelayOf(n) == reconnectDelay * (2 ^ (n - 1))

\* WebSocketService.handleReconnect
handleReconnect(v) ==
  LET n == reconnectAttempts[v] + 1 IN
  /\ reconnectAttempts' = [reconnectAttempts EXCEPT ![v] = n]
  /\ IF n < maxReconnectAttempts
     THEN /\ timers' = [timers EXCEPT ![v] = @ \cup {ReconnectDelayOf(n)}]
          /\ scheduled' = [scheduled EXCEPT ![v] = Append(@, ReconnectDelayOf(n))]
     ELSE UNCHANGED <<timers, scheduled>>

\* a connection attempt of viewer v fails: 'connect_error' runs
\* handleReconnect; the library then goes on retrying or has given up
ConnectError(v) ==
  /\ ~connected[v]
  /\ trying[v]
  /\ reconnectAttempts[v] < MaxErrors
  /\ handleReconnect(v)
  /\ \E again \in BOOLEAN : trying' = [trying EXCEPT ![v] = again]
  /\ UNCHANGED <<users, userSessions, tasks, nextId, now, last, listening, connected, cache,
                 evQ, http, nreq, pushed>>
  /\ UNCHANGED <<token, auth, upQ, connectedUsers, rooms, wsLast, dropped, missed, log, snap, acVars, hkVars, routed>>

\* a timer set by handleReconnect fires: this.socket?.connect()
TimerFires(v) ==
  /\ \E d \in timers[v] : timers' = [timers EXCEPT ![v] = @ \ {d}]
  /\ trying' = [trying EXCEPT ![v] = IF connected[v] THEN trying[v] ELSE TRUE]
  /\ UNCHANGED <<users, userSessions, tasks, nextId, now, last, listening, connected, cache,
                 evQ, http, nreq, pushed>>
  /\ UNCHANGED <<reconnectAttempts, scheduled, token, auth, upQ, connectedUsers, rooms, wsLast,
                 dropped, missed, log, snap, acVars, hkVars, routed>>

\* ------------------------------------------------- lib/websocket.ts (hub)
UserLeft(userId, v) == [type |-> "user_left", user |-> userId, to |-> v]
UserJoined(userId, v) == [type |-> "user_joined", user |-> userId, to |-> v]
InvalidSession(v) == [type |-> "error", user |-> 0, to |-> v]

\* connectedUsers.delete(socket.id)
DropMember(v) == [w \in (DOMAIN connectedUsers) \ {v} |-> connectedUsers[w]]

\* the 'disconnect' listener of the hub for the socket of viewer v; the
\* socket leaves its rooms when it closes
OnDisconnect(v) ==
  /\ wsLast' = [op |-> "disconnect", socket |-> v,
                member |-> IF v \in DOMAIN connectedUsers THEN Some(connectedUsers[v]) ELSE None,
                emitted |-> IF v \in DOMAIN connectedUsers
                               /\ getUserById(connectedUsers[v]) # None
                            THEN <<UserLeft(connectedUsers[v], v)>> ELSE <<>>]
  /\ connectedUsers' = DropMember(v)
  /\ rooms' = [u \in UserIds |-> rooms[u] \ {v}]

\* database.getUserBySession; a removed session has no user id any more
getUserBySession(sessionId) ==
  IF sessionId \in DOMAIN userSessions /\ userSessions[sessionId] # 0
  THEN IF getUserById(userSessions[sessionId]) # None
       THEN Some(userSessions[sessionId]) ELSE None
  ELSE None

\* the 'user_join' listener of the hub for the socket of viewer v
OnUserJoin(v, sessionId) ==
  LET user == getUserBySession(sessionId)
      before == IF v \in DOMAIN connectedUsers THEN Some(connectedUsers[v]) ELSE None IN
  IF user # None
  THEN /\ connectedUsers' = [w \in (DOMAIN connectedUsers) \cup {v} |->
                               IF w = v THEN user[1] ELSE connectedUsers[w]]
       /\ rooms' = [rooms EXCEPT ![user[1]] = @ \cup {v}]
       /\ wsLast' = [op |-> "user_join", socket |-> v, member |-> before,
                     emitted |-> <<UserJoined(user[1], v)>>]
  ELSE /\ wsLast' = [op |-> "user_join", socket |-> v, member |-> before,
                     emitted |-> <<InvalidSession(v)>>]
       /\ UNCHANGED <<connectedUsers, rooms>>

\* a 'user_leave' message reaches the hub, which registers no listener for it
OnUserLeave(v) ==
  /\ wsLast' = [op |-> "user_leave", socket |-> v,
                member |-> IF v \in DOMAIN connectedUsers THEN Some(connectedUsers[v])
                           ELSE None,
                emitted |-> <<>>]
  /\ UNCHANGED <<connectedUsers, rooms>>

\* io.to(`user_${userId}`).emit: the sockets the event goes to
notifyUser(userId) == rooms[userId]

\* the next message of the socket of viewer v reaches the hub
HubHandle(v) ==
  /\ connected[v]
  /\ upQ[v] # <<>>
  /\ IF Head(upQ[v]).type = "user_join"
     THEN OnUserJoin(v, Head(upQ[v]).sessionId[1])
     ELSE OnUserLeave(v)
  /\ upQ' = [upQ EXCEPT ![v] = Tail(upQ[v])]
  /\ UNCHANGED <<users, userSessions, tasks, nextId, now, last, listening, connected, cache,
                 evQ, http, nreq, pushed>>
  /\ UNCHANGED <<reconnectAttempts, timers, scheduled, trying, token, auth, dropped, missed, log, snap, acVars, hkVars, routed>>

\* the task ids named by the events of a queue
RECURSIVE IdsOf(_)
IdsOf(q) == IF q = <<>> THEN {} ELSE {Head(q).taskId} \cup IdsOf(Tail(q))

\* the channel of viewer v drops: what was in flight is lost, the hub runs
\* its 'disconnect' listener and the client library starts to reconnect
SocketDrop(v) ==
  /\ connected[v]
  /\ connected' = [connected EXCEPT ![v] = FALSE]
  /\ trying' = [trying EXCEPT ![v] = TRUE]
  /\ evQ' = [evQ EXCEPT ![v] = <<>>]
  /\ upQ' = [upQ EXCEPT ![v] = <<>>]
  /\ pushed' = [pushed EXCEPT ![v] = @ \ IdsOf(evQ[v])]
  /\ OnDisconnect(v)
  /\ dropped' = [dropped EXCEPT ![v] =
                    IF v \in DOMAIN connectedUsers THEN "joined" ELSE "plain"]
  /\ UNCHANGED <<users, userSessions, tasks, nextId, now, last, listening, cache, http, nreq>>
  /\ UNCHANGED <<reconnectAttempts, timers, scheduled, token, auth, missed, log, snap, acVars, hkVars, routed>>

\* ------------------------------------------- handlers: login and logout
SessionIds == 1..MaxSessions

\* userHandlers.loginUser
loginUser(username) ==
  IF getUserByUsername(username) = None
  THEN /\ last' = Rejected("loginUser", username, None, 404, "User not found")
       /\ UNCHANGED serverVars
  ELSE LET sid == Cardinality(DOMAIN userSessions) + 1 IN
       /\ sid \in SessionIds
       /\ userSessions' = [x \in (DOMAIN userSessions) \cup {sid} |->
                              IF x = sid THEN getUserByUsername(username)[1]
                              ELSE userSessions[x]]
       /\ last' = [op |-> "loginUser", id |-> username, code |-> 200,
                   success |-> TRUE, error |-> None, data |-> Some(sid), events |-> <<>>,
                   steps |-> <<"commit", "respond">>]
       /\ UNCHANGED <<users, tasks, nextId, now>>

\* authenticateUser, then userHandlers.logoutUser; the id of a removed
\* session stays taken (uuidv4() does not hand it out again)
logoutUser(sessionId) ==
  IF getUserBySession(sessionId) = None
  THEN /\ last' = Rejected("logoutUser", sessionId, None, 401, "Unauthorized")
       /\ UNCHANGED serverVars
  ELSE /\ userSessions' = [userSessions EXCEPT ![sessionId] = 0]
       /\ last' = [op |-> "logoutUser", id |-> sessionId, code |-> 200,
                   success |-> TRUE, error |-> None, data |-> None, events |-> <<>>,
                   steps |-> <<"commit", "respond">>]
       /\ UNCHANGED <<users, tasks, nextId, now>>

\* ------------------------------------------- contexts/AuthContext.tsx
AuthSent(op, sessionId) ==
  [phase |-> "sent", op |-> op, success |-> FALSE, sessionId |-> sessionId]

AuthAnswered(op, success, sessionId) ==
  [phase |-> "answered", op |-> op, success |-> success, sessionId |-> sessionId]

\* viewer v calls register, login or logout, which sends its request and awaits
AuthIssue(v, op) ==
  /\ auth[v].phase = "idle"
  /\ IF op = "logoutUser" THEN token[v] # None ELSE token[v] = None
  /\ auth' = [auth EXCEPT ![v] = AuthSent(op, token[v])]
  /\ UNCHANGED <<users, userSessions, tasks, nextId, now, last, listening, connected, cache,
                 evQ, http, nreq, pushed>>
  /\ UNCHANGED <<reconnectAttempts, timers, scheduled, trying, token, upQ, connectedUsers,
                 rooms, wsLast, dropped, missed, log, snap, acVars, hkVars, routed>>

ViewerRegister(v) == AuthIssue(v, "createUser")
ViewerLogin(v) == AuthIssue(v, "loginUser")
ViewerLogout(v) == AuthIssue(v, "logoutUser")

\* the server takes the register, login or logout request of viewer v
AuthServer(v) ==
  /\ auth[v].phase = "sent"
  /\ CASE auth[v].op = "createUser" -> \E username \in Usernames : createUser(username)
       [] auth[v].op = "loginUser" -> \E username \in Usernames : loginUser(username)
       [] OTHER -> logoutUser(auth[v].sessionId[1])
  /\ auth' = [auth EXCEPT ![v] = AuthAnswered(auth[v].op, last'.success, last'.data)]
  /\ UNCHANGED <<listening, connected, cache, evQ, http, nreq, pushed>>
  /\ UNCHANGED <<reconnectAttempts, timers, scheduled, trying, token, upQ, connectedUsers,
                 rooms, wsLast, dropped, missed, log, snap, acVars, hkVars, routed>>

\* the awaited response reaches viewer v: ApiService stores or clears the
\* session id, AuthContext then joins or leaves on the socket
AuthReceive(v) ==
  /\ auth[v].phase = "answered"
  /\ IF auth[v].op = "logoutUser"
     THEN /\ token' = [token EXCEPT ![v] = None]
          /\ upQ' = [upQ EXCEPT ![v] = IF connected[v] THEN Append(@, UserLeave) ELSE @]
     ELSE IF auth[v].success
     THEN /\ token' = [token EXCEPT ![v] = auth[v].sessionId]
          /\ upQ' = [upQ EXCEPT ![v] =
                        IF connected[v] THEN Append(@, UserJoin(auth[v].sessionId[1])) ELSE @]
     ELSE UNCHANGED <<token, upQ>>
  /\ auth' = [auth EXCEPT ![v] = NoAuth]
  /\ UNCHANGED <<users, userSessions, tasks, nextId, now, last, listening, connected, cache,
                 evQ, http, nreq, pushed>>
  /\ UNCHANGED <<reconnectAttempts, timers, scheduled, trying, connectedUsers, rooms, wsLast,
                 dropped, missed, log, snap, acVars, hkVars, routed>>

\* ------------------------------------------- SpecOutage and SpecSession
\* the inputs of the requests that come from outside the modelled viewers
DirectCreateBodies == {b \in ViewerCreateBodies : b.dependencies = {}}
DirectUpdateBodies == {[EmptyUpdate EXCEPT !.status = Some("Done")]}

\* a task request that reaches the server from outside the modelled viewers
DirectRequest ==
  /\ Taken
  /\ \/ \E taskData \in DirectCreateBodies : createTask(taskData)
     \/ \E id \in TaskIds, updates \in DirectUpdateBodies : updateTask(id, updates)
     \/ \E id \in TaskIds : deleteTask(id)
  /\ evQ' = Emit(last'.events)
  /\ pushed' = [w \in Viewers |->
                  IF ~last'.success THEN pushed[w]
                  ELSE IF connected[w] THEN pushed[w] \cup {last'.id}
                  ELSE pushed[w] \ {last'.id}]
  /\ missed' = [w \in Viewers |->
                  IF ~last'.success THEN missed[w]
                  ELSE IF connected[w] THEN missed[w] \ {last'.id}
                  ELSE IF dropped[w] # "never" /\ listening[w] /\ http[w].phase = "idle"
                  THEN missed[w] \cup {last'.id}
                  ELSE missed[w]]
  /\ log' = log \o last'.events
  /\ UNCHANGED <<listening, connected, cache, http>>
  /\ UNCHANGED <<reconnectAttempts, timers, scheduled, trying, token, auth, upQ,
                 connectedUsers, rooms, wsLast, dropped, snap, acVars, hkVars, routed>>

\* the viewer that is watched while the requests of all others reach the
\* server as DirectRequest
Observed == {1}

\* SpecOutage: a viewer whose channel drops and comes back while tasks are
\* committed
NextOutage ==
  \/ \E v \in Observed : Mount(v)
  \/ \E v \in Observed : ServerHandle(v)
  \/ \E v \in Observed : ReceiveResponse(v)
  \/ \E v \in Observed : ReceiveEvent(v)
  \/ \E v \in Observed : SocketConnect(v)
  \/ \E v \in Observed : SocketDrop(v)
  \/ DirectRequest

SpecOutage == Init /\ [][NextOutage]_vars

\* SpecViewer: one viewer that mutates through TaskContext, whose requests
\* may fail, while the requests of others are committed
NextViewer ==
  \/ \E v \in Observed : Mount(v)
  \/ \E v \in Observed : SocketConnect(v)
  \/ \E v \in Observed : ViewerCreate(v)
  \/ \E v \in Observed : ViewerUpdate(v)
  \/ \E v \in Observed : ViewerDelete(v)
  \/ \E v \in Observed : ViewerComplete(v)
  \/ \E v \in Observed : ServerHandle(v)
  \/ \E v \in Observed : RequestThrows(v)
  \/ \E v \in Observed : ReceiveResponse(v)
  \/ \E v \in Observed : ReceiveEvent(v)
  \/ DirectRequest

SpecViewer == Init /\ [][NextViewer]_vars

\* SpecSession: viewers that register, log in and out, whose channels drop
\* and come back, and the hub's membership of them
NextSession ==
  \/ \E v \in Viewers : SocketConnect(v)
  \/ \E v \in Viewers : SocketDrop(v)
  \/ \E v \in Viewers : ViewerRegister(v)
  \/ \E v \in Viewers : ViewerLogin(v)
  \/ \E v \in Viewers : ViewerLogout(v)
  \/ \E v \in Viewers : AuthServer(v)
  \/ \E v \in Viewers : AuthReceive(v)
  \/ \E v \in Viewers : HubHandle(v)

SpecSession == Init /\ [][NextSession]_vars

\* --------------------------------------------------------- SpecReconnect
\* the sockets alone: connecting, dropping, failing and retrying
NextReconnect ==
  \/ \E v \in Viewers : SocketConnect(v)
  \/ \E v \in Viewers : SocketDrop(v)
  \/ \E v \in Viewers : ConnectError(v)
  \/ \E v \in Viewers : TimerFires(v)

SpecReconnect == Init /\ [][NextReconnect]_vars

\* ---------------------------------------------------------------------
\* routes/tasks.ts: router.use(authenticateUser), then per route the
\* validateRequest middleware (lib/validation.ts) and the handler
\* ---------------------------------------------------------------------
\* the Authorization header with 'Bearer ' taken off: none, or a session id
Bearers == {None} \cup {Some(s) : s \in SessionIds}

\* mutant: any token that is present passes
authenticateUser_noLookup(bearer) ==
  IF bearer = None THEN None ELSE Some(1)

\* authenticateUser: the user req.user is set to, None when it answers 401
authenticateUser(bearer) ==
  IF bearer = None THEN None ELSE getUserBySession(bearer[1])

Unauthorized == Rejected("authenticateUser", 0, None, 401, "Unauthorized")

TaskRoutes ==
  {"POST /", "GET /", "GET /:id", "PUT /:id", "DELETE /:id", "PATCH /:id/complete",
   "GET /:id/dependencies"}

ByIdRoutes == TaskRoutes \ {"POST /", "GET /"}

\* the schema object each route hands to validateRequest: the body schema
\* is a Zod schema; the params entry is the object literal
\* { id: { type: 'string' } }, which has no parse method
RouteSchema(route) ==
  [body |-> IF route = "POST /" THEN "CreateTaskSchema"
            ELSE IF route = "PUT /:id" THEN "UpdateTaskSchema" ELSE "none",
   params |-> IF route \in ByIdRoutes THEN "object literal" ELSE "none"]

\* the bodies a route is sent: those that satisfy its schema, as Some(body),
\* and one that does not, None
RouteBodies(route) ==
  IF route = "POST /" THEN {Some(b) : b \in DirectCreateBodies} \cup {None}
  ELSE IF route = "PUT /:id" THEN {Some(u) : u \in DirectUpdateBodies} \cup {None}
  ELSE {Some(EmptyUpdate)}

\* validateRequest(schema): body, then params are parsed inside try; a
\* ZodError is answered 400, anything else thrown 500, and otherwise next()
validateRequest(schema, body) ==
  IF schema.body # "none" /\ body = None
  THEN Rejected("validateRequest", 0, None, 400, "Validation failed")
  ELSE IF schema.params = "object literal"
  THEN Rejected("validateRequest", 0, None, 500, "Internal server error")
  ELSE NoRequest

\* what the getAllTasks handler answers
getAllTasksAnswer ==
  [op |-> "getAllTasks", id |-> 0, code |-> 200, success |-> TRUE, error |-> None,
   data |-> Some(getAllTasks), events |-> <<>>, steps |-> <<"respond">>]

\* what the getTaskDependencies handler answers
getTaskDependenciesAnswer(id) ==
  IF getTaskById(id) = None
  THEN Rejected("getTaskDependencies", id, None, 404, "Task not found")
  ELSE [op |-> "getTaskDependencies", id |-> id, code |-> 200, success |-> TRUE,
        error |-> None,
        data |-> Some([dependencies |-> TaskArray(getTaskDependencies(id)),
                       dependentTasks |-> TaskArray(getTasksDependingOn(id))]),
        events |-> <<>>, steps |-> <<"respond">>]

\* the handler of a route
RouteHandler(route, id, body) ==
  CASE route = "POST /" -> createTask(body[1])
    [] route = "GET /" -> last' = getAllTasksAnswer /\ UNCHANGED serverVars
    [] route = "GET /:id" -> last' = getTaskByIdAnswer(id) /\ UNCHANGED serverVars
    [] route = "PUT /:id" -> updateTask(id, body[1])
    [] route = "DELETE /:id" -> deleteTask(id)
    [] route = "PATCH /:id/complete" -> markTaskAsComplete(id)
    [] OTHER -> last' = getTaskDependenciesAnswer(id) /\ UNCHANGED serverVars

\* a request to /api/tasks passes the router's middleware in order
RouteTask ==
  /\ Taken
  /\ \E bearer \in Bearers, route \in TaskRoutes, id \in TaskIds :
       \E body \in RouteBodies(route) :
         /\ routed' = [route |-> route, bearer |-> bearer, valid |-> body # None]
         /\ IF authenticateUser(bearer) = None
            THEN last' = Unauthorized /\ UNCHANGED serverVars
            ELSE IF validateRequest(RouteSchema(route), body) # NoRequest
            THEN /\ last' = validateRequest(RouteSchema(route), body)
                 /\ UNCHANGED serverVars
            ELSE RouteHandler(route, id, body)
  /\ UNCHANGED <<netVars, wsVars, snap, acVars, hkVars>>

\* POST /api/users/register, POST /api/users/login, POST /api/users/logout
RouteRegister ==
  /\ \E username \in Usernames : createUser(username)
  /\ UNCHANGED <<clientVars, restVars>>

RouteLogin ==
  /\ \E username \in Usernames : loginUser(username)
  /\ UNCHANGED <<clientVars, restVars>>

RouteLogout ==
  /\ \E sessionId \in SessionIds : logoutUser(sessionId)
  /\ UNCHANGED <<clientVars, restVars>>

NextRoutes ==
  \/ RouteTask
  \/ RouteRegister
  \/ RouteLogin
  \/ RouteLogout

SpecRoutes == Init /\ [][NextRoutes]_vars

\* ---------------------------------------------------------------------
\* hooks/useWebSocket.ts: one mounted hook.  Every connect() makes a new
\* socket (reconnection: false) and leaves the older ones with their
\* listeners; connect() and disconnect() are also run by the mount
\* effect, by its cleanup and by the component.
\* ---------------------------------------------------------------------
hookReconnectAttempts == 5
hookReconnectDelay == 1000

\* the sockets one hook may create: enough to use the budget up, fail at
\* the ceiling, connect and drop again
MaxHookSockets == hookReconnectAttempts + 3

\* the sockets of one hook that may be open at a time
MaxOpenSockets == MaxSessions - 1

HookSocketIds == 1..MaxHookSockets

hookOpenSockets == {s \in DOMAIN hkSockets : hkSockets[s] # "closed"}

HookDelayOf(attempt) == hookReconnectDelay * 2^(attempt - 1)

\* socket?.connected
hookSocketConnected == hkSocket # None /\ hkSockets[hkSocket[1]] = "connected"

\* connect(): nothing when the stored socket is connected, else a new
\* socket that starts connecting
hookConnect ==
  IF hookSocketConnected
    THEN UNCHANGED <<hkSockets, hkSocket, hkStatus>>
    ELSE /\ Len(hkSockets) < MaxHookSockets
         /\ Cardinality(hookOpenSockets) < MaxOpenSockets
         /\ hkSockets' = Append(hkSockets, "connecting")
         /\ hkSocket' = Some(Len(hkSockets) + 1)
         /\ hkStatus' = "connecting"

\* handleReconnect(), run by a listener of socket s that has just set
\* connectionStatus to status
hookHandleReconnect_noCeiling(s, status) ==
  /\ hkAttempts' = hkAttempts + 1
  /\ hkTimers' = hkTimers \cup {[by |-> s, delay |-> HookDelayOf(hkAttempts + 1)]}
  /\ hkTimeoutRef' = Some(s)
  /\ hkScheduled' = Append(hkScheduled, HookDelayOf(hkAttempts + 1))
  /\ hkStatus' = status

hookHandleReconnect(s, status) ==
  IF hkAttempts >= hookReconnectAttempts
    THEN /\ hkStatus' = "error"
         /\ UNCHANGED <<hkAttempts, hkTimers, hkTimeoutRef, hkScheduled>>
    ELSE /\ hkAttempts' = hkAttempts + 1
         /\ hkTimers' = hkTimers \cup {[by |-> s, delay |-> HookDelayOf(hkAttempts + 1)]}
         /\ hkTimeoutRef' = Some(s)
         /\ hkScheduled' = Append(hkScheduled, HookDelayOf(hkAttempts + 1))
         /\ hkStatus' = status

notHook ==
  <<users, userSessions, tasks, nextId, now, last, clientVars, wsVars, snap, acVars, routed>>

\* the mount effect, its re-run or the component calls connect()
HookConnect ==
  /\ hookConnect
  /\ UNCHANGED <<hkAttempts, hkTimers, hkTimeoutRef, hkScheduled, notHook>>

\* newSocket.on('connect')
HookOnConnect(s) ==
  /\ s \in DOMAIN hkSockets /\ hkSockets[s] = "connecting"
  /\ hkSockets' = [hkSockets EXCEPT ![s] = "connected"]
  /\ hkStatus' = "connected"
  /\ hkAttempts' = 0
  /\ hkScheduled' = <<>>
  /\ UNCHANGED <<hkSocket, hkTimers, hkTimeoutRef, notHook>>

\* newSocket.on('connect_error')
HookOnConnectError(s) ==
  /\ s \in DOMAIN hkSockets /\ hkSockets[s] = "connecting"
  /\ hkSockets' = [hkSockets EXCEPT ![s] = "closed"]
  /\ hookHandleReconnect(s, "error")
  /\ UNCHANGED <<hkSocket, notHook>>

\* newSocket.on('disconnect') with a reason other than 'io client
\* disconnect': the server or the transport closed the connection
HookOnDisconnect(s) ==
  /\ s \in DOMAIN hkSockets /\ hkSockets[s] = "connected"
  /\ hkSockets' = [hkSockets EXCEPT ![s] = "closed"]
  /\ IF hkAttempts < hookReconnectAttempts
       THEN hookHandleReconnect(s, "disconnected")
       ELSE /\ hkStatus' = "disconnected"
            /\ UNCHANGED <<hkAttempts, hkTimers, hkTimeoutRef, hkScheduled>>
  /\ UNCHANGED <<hkSocket, notHook>>

\* disconnect(), run by the effect's cleanup or the component: the timer
\* in reconnectTimeoutRef is cleared and the stored socket closed (its
\* 'disconnect' listener sees 'io client disconnect' and retries nothing)
HookDisconnect ==
  /\ hkTimers' = {t \in hkTimers : hkTimeoutRef # Some(t.by)}
  /\ IF hkSocket # None
       THEN /\ hkSockets' = [hkSockets EXCEPT ![hkSocket[1]] = "closed"]
            /\ hkSocket' = None
            /\ hkStatus' = "disconnected"
       ELSE UNCHANGED <<hkSockets, hkSocket, hkStatus>>
  /\ UNCHANGED <<hkAttempts, hkTimeoutRef, hkScheduled, notHook>>

\* a reconnect timer fires: connect()
HookTimerFires(t) ==
  /\ t \in hkTimers
  /\ hkTimers' = hkTimers \ {t}
  /\ hookConnect
  /\ UNCHANGED <<hkAttempts, hkTimeoutRef, hkScheduled, notHook>>

NextHook ==
  \/ HookConnect
  \/ HookDisconnect
  \/ \E s \in HookSocketIds : HookOnConnect(s)
  \/ \E s \in HookSocketIds : HookOnConnectError(s)
  \/ \E s \in HookSocketIds : HookOnDisconnect(s)
  \/ \E t \in hkTimers : HookTimerFires(t)

SpecHook == Init /\ [][NextHook]_vars

\* =============================================================== claims
\* the step in which the server took a request for this handler
Handled(op) == nreq' = nreq + 1 /\ last'.op = op

AllDone(deps) == \A d \in deps : d \in DOMAIN tasks /\ tasks[d].status = "Done"

\* C1: after every successful createTask/updateTask no stored task's id is a
\* member of that task's own dependencies (the claim as stated).
C1_NoSelfDependency == \A t \in DOMAIN tasks : t \notin tasks[t].dependencies

\* C2: for an existing task T, markTaskAsComplete(T) stores T as Done iff every
\* id in T.dependencies resolves to a stored task whose status is Done;
\* otherwise it answers "Cannot mark as done" and the store is unmodified.
C2_MarkCompleteIffDepsDone ==
  [][\A id \in DOMAIN tasks :
       (Handled("markTaskAsComplete") /\ last'.id = id) =>
          /\ last'.success <=> AllDone(tasks[id].dependencies)
          /\ last'.success =>
                /\ id \in DOMAIN tasks'
                /\ tasks'[id].status = "Done"
                /\ last'.data = Some(tasks'[id])
          /\ ~last'.success =>
                /\ last'.error = Some("Cannot mark as done")
                /\ last'.code = 400
                /\ tasks' = tasks]_vars

\* C2 witness: a completion that was accepted for a task with dependencies
C2_Witness ==
  /\ last.op = "markTaskAsComplete"
  /\ last.success
  /\ last.id \in DOMAIN tasks
  /\ tasks[last.id].dependencies # {}
  /\ tasks[last.id].status = "Done"

\* C3: for an existing task T, deleteTask(T) is rejected with the conflict
\* error iff some OTHER task's dependency set contains T.id; in every other
\* case it succeeds and T is removed (the claim as stated).
C3_DeleteConflictIffOtherDependent ==
  [][\A id \in DOMAIN tasks :
       (Handled("deleteTask") /\ last'.id = id) =>
          /\ ~last'.success <=>
                \E other \in (DOMAIN tasks) \ {id} : id \in tasks[other].dependencies
          /\ last'.success => id \notin DOMAIN tasks'
          /\ ~last'.success => last'.error = Some("Cannot delete task")]_vars

\* C4: an updateTask carrying status Done together with a dependencies list is
\* gated on that list: rejected if some task in it is not Done, accepted if all
\* of them are Done (the claim as stated, for lists of other tasks).
C4_GateOnSuppliedDependencies ==
  [][\A id \in DOMAIN tasks : \A d \in SUBSET ((DOMAIN tasks) \ {id}) :
       (/\ Handled("updateTask")
        /\ updateTask(id, [EmptyUpdate EXCEPT !.status = Some("Done"),
                                              !.dependencies = Some(d)]))
       => (last'.success <=> \A x \in d : tasks[x].status = "Done")]_vars

\* C5: in every reachable store state every id in every stored task's
\* dependencies refers to a task that exists in the store.
C5_NoDanglingDependency ==
  \A t \in DOMAIN tasks : tasks[t].dependencies \subseteq DOMAIN tasks

\* C5 witness: a delete was refused because a stored task depends on the target
C5_Witness ==
  /\ last.op = "deleteTask"
  /\ last.error = Some("Cannot delete task")
  /\ \E t \in DOMAIN tasks : t # last.id /\ last.id \in tasks[t].dependencies

\* C6: a rejected mutation leaves the task and user collections as they were
\* and emits no event.
C6_RejectedChangesNothing ==
  [][(nreq' = nreq + 1 /\ ~last'.success) =>
        /\ tasks' = tasks
        /\ users' = users
        /\ userSessions' = userSessions
        /\ nextId' = nextId
        /\ last'.events = <<>>
        /\ last'.code \in {400, 404}]_vars

\* C6 witness: an update naming a nonexistent user was rejected while tasks exist
C6_Witness ==
  /\ last.op = "updateTask"
  /\ last.error = Some("Invalid assigned user")
  /\ last.id \in DOMAIN tasks

TaskOps == {"createTask", "updateTask", "deleteTask", "markTaskAsComplete"}

C8_UpdateEventReachesCache ==
  [][\A v \in Viewers :
       (/\ evQ[v] # <<>>
        /\ evQ'[v] = Tail(evQ[v])
        /\ listening[v]
        /\ Head(evQ[v]).type = "task_updated")
       => \E i \in DOMAIN cache'[v] : cache'[v][i] = Head(evQ[v]).task[1]]_vars

\* C9: no cache ever holds two entries for one task id, whatever the arrival
\* order of the response and the event of one commit (the claim as stated).
C9_NoDuplicateEntries ==
  \A v \in Viewers : \A i, j \in DOMAIN cache[v] :
     i # j => cache[v][i].id # cache[v][j].id

\* C10: when the response to a viewer's own update is applied, and the event
\* of the task's latest commit was pushed to that viewer and has arrived, the
\* viewer's entries for the task hold the values of the commit that reached
\* the store last (the claim as stated).
C10_LastCommitWins ==
  [][\A v \in Viewers :
       (/\ http[v].phase = "answered"
        /\ http[v].op = "updateTask"
        /\ http[v].success
        /\ http'[v].phase = "idle"
        /\ evQ[v] = <<>>
        /\ http[v].id \in pushed[v]
        /\ http[v].id \in DOMAIN tasks)
       => \A i \in DOMAIN cache'[v] :
             cache'[v][i].id = http[v].id => cache'[v][i] = tasks[http[v].id]]_vars

\* C11: after a channel drop, once every retry has failed (the counter is at
\* its ceiling), the service has scheduled exactly five attempts of its own since the channel
\* was last up, after base, 2*base, 4*base, 8*base and 16*base (the claim as
\* stated).
C11_FiveAttemptsScheduled ==
  \A v \in Viewers :
     (/\ wsLast.op = "disconnect"
      /\ wsLast.socket = v
      /\ ~connected[v]
      /\ reconnectAttempts[v] >= maxReconnectAttempts) =>
        scheduled[v] = <<reconnectDelay, 2 * reconnectDelay, 4 * reconnectDelay,
                         8 * reconnectDelay, 16 * reconnectDelay>>

\* the entries a cache holds for a task id
EntriesOf(v, id) == {i \in DOMAIN cache[v] : cache[v][i].id = id}

\* C12: once a viewer's channel is up again and nothing is in flight to the
\* viewer, its cache reflects every commit made during the outage: a stored
\* task is held with its stored values, a deleted one is not held (the claim
\* as stated: the pull after the reconnect has brought them in).
C12_OutageCommitsReflected ==
  \A v \in Viewers :
     (/\ listening[v]
      /\ connected[v]
      /\ evQ[v] = <<>>
      /\ http[v].phase = "idle") =>
        \A id \in missed[v] :
           IF id \in DOMAIN tasks
           THEN \E i \in DOMAIN cache[v] : cache[v][i] = tasks[id]
           ELSE EntriesOf(v, id) = {}

\* the user a viewer's stored session id resolves to at the server
SessionUser(v) == IF token[v] = None THEN None ELSE getUserBySession(token[v][1])

\* C13: on every transition of a viewer's channel into connected, a viewer
\* that holds a session id sends user_join with it; and once the hub has
\* handled what a connected viewer holding a valid session id has sent,
\* notifyUser for that user reaches the viewer's socket, also after drops and
\* reconnects.
C13_JoinOnEveryConnect ==
  [][\A v \in Viewers :
       /\ (~connected[v] /\ connected'[v] /\ token[v] # None) =>
             upQ'[v] = <<UserJoin(token[v][1])>>
       /\ (connected'[v] /\ SessionUser(v)' # None /\ upQ'[v] = <<>>) =>
             v \in notifyUser(SessionUser(v)[1])']_vars

\* C13 witness: a viewer that registered once, whose channel dropped while it
\* was joined and is up again, is back in its user's room through a user_join
C13_Witness ==
  \E v \in Viewers :
     /\ dropped[v] = "joined"
     /\ connected[v]
     /\ token[v] = Some(1)
     /\ DOMAIN userSessions = {1}
     /\ upQ[v] = <<>>
     /\ wsLast = [op |-> "user_join", socket |-> v, member |-> None,
                  emitted |-> <<UserJoined(1, v)>>]
     /\ v \in notifyUser(1)

\* C19: when the hub has handled the leaving of a joined socket, by a
\* user_leave message or by its disconnect, the socket is in neither the
\* membership table nor the user's room and a user_left event for the user
\* was emitted (the claim as stated).
C19_LeaveRemovesMembership ==
  \A v \in Viewers :
     (/\ wsLast.op \in {"user_leave", "disconnect"}
      /\ wsLast.socket = v
      /\ wsLast.member # None) =>
        /\ v \notin DOMAIN connectedUsers
        /\ v \notin rooms[wsLast.member[1]]
        /\ \E i \in DOMAIN wsLast.emitted :
              wsLast.emitted[i] = UserLeft(wsLast.member[1], v)

\* C14: for every accepted createTask(input), getTaskById on the returned id
\* with no mutation in between answers the input's title, description,
\* priority, status, assignedUserId and dependencies (the same set of task
\* ids), plus the generated id, createdAt and updatedAt (the claim as stated).
C14_CreateThenGetRoundTrip ==
  [][\A taskData \in QueryCreateBodies : \A id \in TaskIds :
       (/\ Handled("createTask")
        /\ createTask(taskData)
        /\ last'.success
        /\ last'.id = id)
       => LET r == getTaskByIdAnswer(id)' IN
          /\ r.success
          /\ r.data[1].id = id
          /\ r.data[1].title = taskData.title
          /\ r.data[1].description = taskData.description
          /\ r.data[1].priority = taskData.priority
          /\ r.data[1].status = taskData.status
          /\ r.data[1].assignedUserId = taskData.assignedUserId
          /\ r.data[1].createdAt \in ClockReadings
          /\ r.data[1].updatedAt \in ClockReadings
          /\ r.data[1].dependencies.holds = IdArray(taskData.dependencies).holds
          /\ r.data[1].dependencies.items = IdArray(taskData.dependencies).items]_vars

\* C15: in every store state getBlockedTasks() is exactly the set of tasks
\* that are not Done and for which canMarkTaskAsDone is false (a dependency
\* that does not resolve counts as not satisfied); the query answers that set
\* and leaves the store as it was, so a second call answers the same.
C15_BlockedIsNotDoneAndCannotComplete ==
  [][/\ getBlockedTasks' =
          {t \in DOMAIN tasks' : tasks'[t].status # "Done" /\ ~canMarkTaskAsDone(t)'}
     /\ last'.op = "getBlockedTasks" =>
          /\ tasks' = tasks
          /\ users' = users
          /\ userSessions' = userSessions
          /\ {last'.data[1][i].id : i \in DOMAIN last'.data[1]} =
                {t \in DOMAIN tasks : tasks[t].status # "Done" /\ ~canMarkTaskAsDone(t)}
          /\ last.op = "getBlockedTasks" => last'.data = last.data]_vars

\* C15 witness: the query has answered a blocked task while another task
\* with an unfinished dependency is left out because it is Done
C15_Witness ==
  /\ last.op = "getBlockedTasks"
  /\ last.data[1] # <<>>
  /\ \E t \in DOMAIN tasks :
        /\ tasks[t].status = "Done"
        /\ ~canMarkTaskAsDone(t)

\* C16: the step in which a viewer issues a create, or a delete of a task it
\* holds, changes the viewer's task list, that is, before any response (the
\* claim as stated).
C16_ListChangesAtIssue ==
  [][\A v \in Viewers :
       (/\ http[v].phase = "idle"
        /\ http'[v].phase = "sent"
        /\ \/ http'[v].op = "createTask"
           \/ http'[v].op = "deleteTask" /\ EntriesOf(v, http'[v].id) # {})
       => cache'[v] # cache[v]]_vars

IsSuffix(s, t) == Len(s) <= Len(t) /\ SubSeq(t, Len(t) - Len(s) + 1, Len(t)) = s

\* C20: a subscriber receives the events of the commits in commit order, so
\* for two commits to the same task the event of the earlier one comes
\* first: the events on their way to a socket are the latest commits in
\* commit order, and a delivery hands over the earliest of them.
C20_EventsInCommitOrder ==
  [][\A w \in Viewers :
       /\ IsSuffix(evQ'[w], log')
       /\ (evQ[w] # <<>> /\ evQ'[w] = Tail(evQ[w]) /\ log' = log /\ listening[w]) =>
             cache'[w] = ApplyEvent(cache[w], log[Len(log) - Len(evQ[w]) + 1])]_vars

\* C20 witness: a viewer whose load is not answered yet holds a task as its
\* second commit left it: the events of the create and of the update of the
\* task have both reached it, in that order
C20_Witness ==
  \E w \in Viewers :
     /\ http[w].phase = "sent"
     /\ http[w].op = "getAllTasks"
     /\ evQ[w] = <<>>
     /\ Len(log) = 2
     /\ log[1].type = "task_created"
     /\ log[2].type = "task_updated"
     /\ log[2].task[1].id = log[1].task[1].id
     /\ log[2].task # log[1].task
     /\ cache[w] = <<log[2].task[1]>>

\* a key of the task resource class: its path starts with /api/tasks
IsTaskKey(key) == Len(key) >= 2 /\ key[1] = "api" /\ key[2] = "tasks"

\* C18: when a successful createTask, updateTask, deleteTask or
\* markTaskAsComplete call of the ApiClient returns, the cache holds no entry
\* of a task endpoint and every entry of another resource class as it was;
\* a task read called next, before any other call returns, is not answered
\* from the cache.
C18_MutationInvalidatesTaskEntries ==
  [][/\ (acMut.phase = "answered" /\ acMut.success /\ acMut'.phase = "idle") =>
          /\ \A key \in DOMAIN acCache' : ~IsTaskKey(key)
          /\ \A key \in DOMAIN acCache :
                ~IsTaskKey(key) => key \in DOMAIN acCache' /\ acCache'[key] = acCache[key]
     /\ (/\ acLast.op \in MutationOps
         /\ acLast.from = "server"
         /\ acLast'.op = "read"
         /\ IsTaskKey(acLast'.key)) => acLast'.from # "cache"]_vars

\* C18 witness: a successful mutation has returned and took the task list
\* and a single task's entry out of the cache, which still holds the users
\* and the health entries
C18_Witness ==
  /\ acLast.op \in MutationOps
  /\ acLast.from = "server"
  /\ TasksPath \in acLast.removed
  /\ \E id \in TaskIds : TaskPath(id) \in acLast.removed
  /\ UsersPath \in DOMAIN acCache
  /\ HealthPath \in DOMAIN acCache
  /\ \A key \in DOMAIN acCache : ~IsTaskKey(key)

\* the errors of a reference that does not resolve
ReferenceErrors == {Some("Invalid dependency"), Some("Invalid assigned user")}

\* a supplied user or dependency does not resolve in the store
CreateRefsMissing(taskData) ==
  \/ taskData.assignedUserId # None /\ taskData.assignedUserId[1] \notin DOMAIN users
  \/ \E d \in taskData.dependencies : d \notin DOMAIN tasks

UpdateRefsMissing(updates) ==
  \/ updates.assignedUserId # Absent /\ updates.assignedUserId[1] \notin DOMAIN users
  \/ updates.dependencies # Absent /\ \E d \in updates.dependencies[1] : d \notin DOMAIN tasks

\* C21: createTask, and updateTask of a stored task, are rejected with a
\* validation error (400, the store untouched) whenever the supplied
\* assignedUserId or a supplied dependency id does not resolve, and are not
\* rejected with such an error when all supplied references resolve.
C21_ReferencesValidated ==
  [][/\ \A taskData \in CreateBodies :
          (Handled("createTask") /\ createTask(taskData)) =>
             /\ CreateRefsMissing(taskData) <=> last'.error \in ReferenceErrors
             /\ CreateRefsMissing(taskData) =>
                   ~last'.success /\ last'.code = 400 /\ tasks' = tasks
     /\ \A id \in DOMAIN tasks : \A updates \in UpdateBodies :
          (Handled("updateTask") /\ last'.id = id /\ updateTask(id, updates)) =>
             /\ UpdateRefsMissing(updates) <=> last'.error \in ReferenceErrors
             /\ UpdateRefsMissing(updates) =>
                   ~last'.success /\ last'.code = 400 /\ tasks' = tasks]_vars

\* C21 witness: a create naming a user that does not exist was refused, while
\* a task with a dependency that resolved is stored
C21_Witness ==
  /\ last.op = "createTask"
  /\ last.error = Some("Invalid assigned user")
  /\ \E t \in DOMAIN tasks : tasks[t].dependencies # {}

\* C22: whenever a commit stores a task as Done that was absent or not Done
\* before it, every task in the dependency set it is stored with is stored
\* and Done (the claim as stated).
C22_DoneOnlyOverDoneDependencies ==
  [][\A t \in DOMAIN tasks' :
       (/\ tasks'[t].status = "Done"
        /\ t \notin DOMAIN tasks \/ tasks[t].status # "Done")
       => \A d \in tasks'[t].dependencies :
             d \in DOMAIN tasks' /\ tasks'[d].status = "Done"]_vars

\* the tasks reached from the tasks of S over at most n dependency edges of
\* the store
RECURSIVE DepsClosure(_, _, _)
DepsClosure(store, S, n) ==
  IF n = 0 THEN S
  ELSE DepsClosure(store,
                   S \cup UNION {store[x].dependencies : x \in S \cap DOMAIN store}, n - 1)

\* task t lies on a cycle of the store's dependency sets
OnCycle(store, t) ==
  t \in DOMAIN store /\ t \in DepsClosure(store, store[t].dependencies, MaxTasks)

\* C23: a commit of updateTask or markTaskAsComplete that leaves a dependency
\* cycle in place does not move a member of that cycle to Done (the claim as
\* stated).
C23_CycleMemberNeverDone ==
  [][\A t \in DOMAIN tasks :
       (/\ last'.op \in {"updateTask", "markTaskAsComplete"}
        /\ OnCycle(tasks, t)
        /\ OnCycle(tasks', t)
        /\ tasks[t].status # "Done")
       => tasks'[t].status # "Done"]_vars

\* the step changed, of the stored task id, only what the partial supplies
\* and updatedAt, which did not decrease, and nothing else in the store
OnlySupplied(id, updates) ==
  /\ DOMAIN tasks' = DOMAIN tasks
  /\ \A other \in (DOMAIN tasks) \ {id} : tasks'[other] = tasks[other]
  /\ users' = users
  /\ userSessions' = userSessions
  /\ tasks'[id].id = id
  /\ tasks'[id].createdAt = tasks[id].createdAt
  /\ tasks'[id].updatedAt >= tasks[id].updatedAt
  /\ tasks'[id].title = IF updates.title = Absent THEN tasks[id].title ELSE updates.title[1]
  /\ tasks'[id].description =
        IF updates.description = Absent THEN tasks[id].description ELSE updates.description
  /\ tasks'[id].priority =
        IF updates.priority = Absent THEN tasks[id].priority ELSE updates.priority[1]
  /\ tasks'[id].status = IF updates.status = Absent THEN tasks[id].status ELSE updates.status[1]
  /\ tasks'[id].assignedUserId =
        IF updates.assignedUserId = Absent THEN tasks[id].assignedUserId
        ELSE updates.assignedUserId
  /\ tasks'[id].dependencies =
        IF updates.dependencies = Absent THEN tasks[id].dependencies
        ELSE updates.dependencies[1]

\* C24: a successful updateTask(id, partial) or markTaskAsComplete(id) changes
\* only the fields of task id that the partial supplies (status for a
\* completion) and updatedAt, which does not decrease; the task's id and
\* createdAt, its other fields, every other task, the users and the sessions
\* stay as they were.
C24_UpdateChangesOnlySupplied ==
  [][\A id \in DOMAIN tasks :
       /\ \A updates \in UpdateBodies :
             (/\ Handled("updateTask")
              /\ last'.id = id
              /\ last'.success
              /\ updateTask(id, updates)) => OnlySupplied(id, updates)
       /\ (Handled("markTaskAsComplete") /\ last'.id = id /\ last'.success) =>
             OnlySupplied(id, [EmptyUpdate EXCEPT !.status = Some("Done")])]_vars

\* C24 witness: an update was accepted at a later clock reading than the
\* task's creation and left the task with dependencies and In Progress: of
\* status and dependencies it supplied at most one
C24_Witness ==
  /\ last.op = "updateTask"
  /\ last.success
  /\ last.id \in DOMAIN tasks
  /\ tasks[last.id].dependencies # {}
  /\ tasks[last.id].status = "In Progress"
  /\ tasks[last.id].updatedAt > tasks[last.id].createdAt

\* the step in which a listener of some socket of the hook ran: the socket
\* went from one state to the other while the stored socket stayed
HookHeard(from, to) ==
  /\ hkSocket' = hkSocket
  /\ \E s \in DOMAIN hkSockets : hkSockets[s] = from /\ hkSockets'[s] = to

\* C25: in the useWebSocket hook, since a socket of the hook last connected
\* at most reconnectAttempts reconnect timers have been scheduled, as many
\* as the counter says; a 'connect_error' that finds the counter at the
\* ceiling sets connectionStatus to 'error' and schedules no timer; a
\* 'connect' sets the counter to zero, and the first failure after it
\* schedules a timer again.
C25_RetryBudgetBoundedAndRenewable ==
  [][/\ Len(hkScheduled') <= hookReconnectAttempts
     /\ Len(hkScheduled') = hkAttempts'
     /\ (HookHeard("connecting", "closed") /\ hkAttempts >= hookReconnectAttempts
           => hkStatus' = "error" /\ hkTimers' = hkTimers /\ hkScheduled' = hkScheduled)
     /\ (HookHeard("connecting", "connected") => hkAttempts' = 0)
     /\ ((HookHeard("connecting", "closed") \/ HookHeard("connected", "closed"))
           /\ hkAttempts = 0
           => hkScheduled' = <<hookReconnectDelay>> /\ hkTimers' # hkTimers)]_vars

\* the budget ran out (five timers, then 'error' at the ceiling), a later
\* socket connected, and the outage after it has a timer pending again
C25_Witness ==
  /\ hkStatus = "disconnected"
  /\ Len(hkScheduled) = 1
  /\ hkTimers # {}
  /\ Cardinality({s \in DOMAIN hkSockets : hkSockets[s] = "closed"}) > hookReconnectAttempts + 1

\* the session id maps to an existing user
ValidSession(s) == getUserBySession(s) # None

\* the step in which a login or a registration answered session id s
SessionCreated(s) ==
  /\ last'.op \in {"loginUser", "createUser"}
  /\ last'.success
  /\ last'.data = Some(s)
  /\ userSessions' # userSessions

\* the step in which a logout that presented session id s was carried out
SessionLoggedOut(s) ==
  /\ last'.op = "logoutUser"
  /\ last'.success
  /\ last'.id = s
  /\ userSessions' # userSessions

\* C26: a request to the tasks router whose bearer token maps to no
\* existing user is answered 401 by authenticateUser and leaves the store
\* as it was, and one whose token maps to a user is not stopped by
\* authenticateUser; a session id maps to its user from the login or
\* registration that answered it through every step that is not a logout
\* presenting it, and from that logout on it never maps to a user again,
\* whatever happens to the other sessions.
C26_OnlyLiveSessionsReachHandlers ==
  [][/\ (nreq' = nreq + 1 =>
           IF routed'.bearer # None /\ ValidSession(routed'.bearer[1])
           THEN last'.op # "authenticateUser" /\ last'.code # 401
           ELSE last' = Unauthorized /\ serverVars' = serverVars)
     /\ \A s \in SessionIds :
          /\ (SessionCreated(s) => ValidSession(s)')
          /\ (ValidSession(s) /\ ~SessionLoggedOut(s) => ValidSession(s)')
          /\ (ValidSession(s) /\ SessionLoggedOut(s) => ~ValidSession(s)')
          /\ (s \in DOMAIN userSessions /\ ~ValidSession(s) => ~ValidSession(s)')]_vars

\* a task request carrying a session id that was logged out has just been
\* answered 401 while another session of the same user is still valid
C26_Witness ==
  /\ last = Unauthorized
  /\ routed.bearer # None
  /\ routed.bearer[1] \in DOMAIN userSessions
  /\ ~ValidSession(routed.bearer[1])
  /\ \E s \in SessionIds : ValidSession(s)

\* C27: a request to a by-id task route that carries a live session and,
\* where the route has a body schema, a body that satisfies it is passed on
\* by validateRequest to the task handler and is not answered 500; the
\* middleware answers by itself only with 400 'Validation failed', and only
\* when the input violates the schema.
C27_ByIdRoutesReachTheHandler ==
  [][nreq' = nreq + 1 /\ routed'.route \in ByIdRoutes
       /\ routed'.bearer # None /\ ValidSession(routed'.bearer[1])
       => /\ (routed'.valid => last'.op # "validateRequest" /\ last'.code # 500)
          /\ (last'.op = "validateRequest"
                => last'.code = 400 /\ last'.error = Some("Validation failed")
                   /\ ~routed'.valid)]_vars

UpdateFields == {"title", "description", "priority", "status", "assignedUserId", "dependencies"}

\* the fields an update supplies
Supplied(updates) == {f \in UpdateFields : updates[f] # Absent}

\* two stored versions of a task that differ in updatedAt at most
SameApartFromUpdatedAt(a, b) == [a EXCEPT !.updatedAt = 0] = [b EXCEPT !.updatedAt = 0]

\* the task holds what the update supplies
TookEffect(task, updates) ==
  \A f \in Supplied(updates) :
     task[f] = IF f \in {"description", "assignedUserId"} THEN updates[f] ELSE updates[f][1]

\* the stores after u1 then u2, the first being the step just taken, and
\* after u2 then u1 from the same store, agree on the task and hold what
\* both supplied
OrderIndependent(id, u1, u2) ==
  LET first == updateTaskOn(updateTaskOn(tasks, id, u1, now'), id, u2, now')
      other == updateTaskOn(updateTaskOn(tasks, id, u2, now'), id, u1, now') IN
  /\ SameApartFromUpdatedAt(first[id], other[id])
  /\ TookEffect(first[id], u1) /\ TookEffect(first[id], u2)

\* each request is accepted in either arrival order
AcceptedInBothOrders(id, u1, u2) ==
  /\ updateAccepted(tasks, id, u1)
  /\ updateAccepted(updateTaskOn(tasks, id, u1, now'), id, u2)
  /\ updateAccepted(tasks, id, u2)
  /\ updateAccepted(updateTaskOn(tasks, id, u2, now'), id, u1)

\* the step in which the updateTask handler committed u1 on the task
UpdateCommitted(id, u1) ==
  Handled("updateTask") /\ last'.id = id /\ last'.success /\ updateTask(id, u1)

\* C28 (as stated): when the updateTask handler has committed an update of a
\* task, the store it leaves is the one its validate-then-commit sequence
\* yields on the store it found; and for every update of the same task that
\* supplies other fields, the task ends up the same apart from updatedAt
\* whichever of the two arrives first, holding what both supplied.
C28_DisjointUpdatesCommute ==
  [][Handled("updateTask") /\ last'.success =>
       \A u1 \in UpdateBodies :
          UpdateCommitted(last'.id, u1) =>
            /\ tasks' = updateTaskOn(tasks, last'.id, u1, now')
            /\ \A u2 \in UpdateBodies :
                  Supplied(u1) \cap Supplied(u2) = {} => OrderIndependent(last'.id, u1, u2)]_vars

\* C28 (amended): the same for the pairs of updates that the handler accepts
\* in either arrival order; an update to Done is validated against the
\* dependency list stored when it arrives, so it is accepted before an
\* update that supplies an unfinished dependency and refused after it.
C28_AcceptedDisjointUpdatesCommute ==
  [][Handled("updateTask") /\ last'.success =>
       \A u1 \in UpdateBodies :
          UpdateCommitted(last'.id, u1) =>
            /\ tasks' = updateTaskOn(tasks, last'.id, u1, now')
            /\ \A u2 \in UpdateBodies :
                  Supplied(u1) \cap Supplied(u2) = {}
                    /\ AcceptedInBothOrders(last'.id, u1, u2)
                  => OrderIndependent(last'.id, u1, u2)]_vars

\* an update to Done has been committed on a task, and an update that gives
\* the task a dependency which is Done would be accepted after it
C28_Witness ==
  /\ last.op = "updateTask" /\ last.success
  /\ last.id \in DOMAIN tasks
  /\ tasks[last.id].status = "Done"
  /\ \E d \in DOMAIN tasks :
       /\ d # last.id /\ tasks[d].status = "Done"
       /\ updateAccepted(tasks, last.id, [EmptyUpdate EXCEPT !.dependencies = Some({d})])

\* C29: a task read of the ApiClient that is answered from the cache after
\* a successful task mutation has returned is answered with data the server
\* computed after that mutation's commit: the entry it is served from is
\* not the response of a GET that the server answered before the commit.
C29_NoReadOlderThanReturnedMutation ==
  [][acLast'.op = "read" /\ acLast'.from = "cache" /\ IsTaskKey(acLast'.key)
       /\ acLast' # acLast
       => acLast'.key \notin acAge.keys]_vars

\* the task list shows the stored state of the task: the stored task if
\* there is one, no entry if it was deleted
Reflects(list, id) ==
  IF id \in DOMAIN tasks
  THEN \E i \in DOMAIN list : list[i] = tasks[id]
  ELSE \A i \in DOMAIN list : list[i].id # id

\* C30: when the response of a list-tasks pull is applied at a listening
\* viewer, every task whose latest commit was announced on the viewer's
\* socket, whose event has arrived and whose committed state the viewer's
\* list shows, is still shown in that state afterwards, also when the server
\* computed the list before that commit (the claim as stated).
C30_PullKeepsReceivedEvents ==
  [][\A v \in Viewers :
       (/\ http[v].phase = "answered"
        /\ http[v].op = "getAllTasks"
        /\ http'[v].phase = "idle"
        /\ listening[v]
        /\ evQ[v] = <<>>)
       => \A id \in pushed[v] :
             Reflects(cache[v], id) => Reflects(cache'[v], id)]_vars
====
